---- MODULE Spec2Model ----
(***************************************************************************)
(* Scoring and interpretation engine of the school platform:               *)
(*   - the option value parser (_parse_value_to_scales), which exists in   *)
(*     three copies: services/analysis.py, blueprints/student.py and       *)
(*     blueprints/psych.py;                                                *)
(*   - the scale aggregator (_calc_scales_and_totals), three copies;       *)
(*   - the interpretation routines (_interpret, _interpretation,           *)
(*     _humanize / _mbti_code_from_per).                                   *)
(*                                                                         *)
(* A Python str is a sequence of one-character strings.  A Python dict is  *)
(* a sequence of records [k |-> key, v |-> value] in insertion order (the  *)
(* order dict iteration and the stable sorted() see).  A call that may     *)
(* raise returns a record whose st field is "ok" or "raise".               *)
(***************************************************************************)
EXTENDS Integers, Sequences, FiniteSets, TLC

VARIABLES
    pc,        \* which flow the behaviour models and how far it has got
    val,       \* parser flow: the option value handed to the parsers
    parsed,    \* parser flow: what each copy of the parser returned
    test,      \* aggregator flow: the instrument (slug, questions, options)
    answers,   \* aggregator flow: answers_by_qid, question id -> TestAnswer
    agg,       \* aggregator flow: what each copy of the aggregator returned
    per_in,    \* interpretation flow: slug, per_scale, raw, max_score handed to the routines
    interp,    \* interpretation flow: what each routine returned
    view,      \* interpretation flow: lang and score_pct of psych_attempt_view
    risk,      \* interpretation flow: the call of _cdi_risk_from_raw and its result
    tests,     \* attempt flows: the rows of the Test table
    attempts,  \* attempt flows: the rows of TestAttempt with their TestAnswer rows
    risks,     \* attempt flow: the call of _cdi_risks and its result
    digest,    \* digest flow: the texts built for the AI assistant
    page,      \* digest flow: what a view of the student hands to its template
    answer_rows, \* score and request flows: the rows of the TestAnswer table
    scored,    \* score flow: what _calc_raw_total and _compute_mbti returned
    reqs       \* request flow: the requests in flight, by worker

vars == <<pc, val, parsed, test, answers, agg, per_in, interp, view, risk,
          tests, attempts, risks, digest, page, answer_rows, scored, reqs>>

-----------------------------------------------------------------------------
(* Bounds                                                                   *)

\* longest option value enumerated exhaustively over Alphabet
MaxLen == 3

\* most questions of an instrument of the aggregator flow
MaxQuestions == 2

\* most points of one scale in a per_scale dict of the interpretation flow
MaxPts == 2

\* most points of one MBTI letter in a per_scale dict of the interpretation flow
MaxVotes == 1

-----------------------------------------------------------------------------
(* Python str helpers                                                       *)

LatinLower == <<"a","b","c","d","e","f","g","h","i","j","k","l","m",
                "n","o","p","q","r","s","t","u","v","w","x","y","z">>
LatinUpper == <<"A","B","C","D","E","F","G","H","I","J","K","L","M",
                "N","O","P","Q","R","S","T","U","V","W","X","Y","Z">>
Digits     == <<"0","1","2","3","4","5","6","7","8","9">>

Range(f) == {f[i] : i \in DOMAIN f}

LowerSet == Range(LatinLower)
UpperSet == Range(LatinUpper)
DigitSet == Range(Digits)

IsLower(c) == c \in LowerSet
IsUpper(c) == c \in UpperSet
IsDigit(c) == c \in DigitSet

\* value of a decimal digit character
DigitVal(c) == (CHOOSE i \in DOMAIN Digits : Digits[i] = c) - 1

\* str.upper() on one character
UpperChar(c) ==
    IF IsLower(c) THEN LatinUpper[CHOOSE i \in DOMAIN LatinLower : LatinLower[i] = c]
    ELSE c

\* str.upper()
Upper(s) == [i \in DOMAIN s |-> UpperChar(s[i])]

\* str.lstrip(): drop leading characters that satisfy Drop
RECURSIVE LStripSet(_, _)
LStripSet(s, drop) ==
    IF s # <<>> /\ Head(s) \in drop THEN LStripSet(Tail(s), drop) ELSE s

RECURSIVE RStripSet(_, _)
RStripSet(s, drop) ==
    IF s # <<>> /\ s[Len(s)] \in drop
    THEN RStripSet(SubSeq(s, 1, Len(s) - 1), drop) ELSE s

\* str.strip(): whitespace removed at both ends
Strip(s) == RStripSet(LStripSet(s, {" "}), {" "})

\* str.isdigit(): non-empty and every character a digit
IsDigitStr(s) == s # <<>> /\ \A i \in DOMAIN s : IsDigit(s[i])

\* value of a non-empty string of decimal digits
RECURSIVE DigitsVal(_)
DigitsVal(s) ==
    IF s = <<>> THEN 0
    ELSE 10 * DigitsVal(SubSeq(s, 1, Len(s) - 1)) + DigitVal(s[Len(s)])

\* the digit groups of int(): digits, single underscores only between digits
IntBodyOk(s) ==
    /\ s # <<>>
    /\ \A i \in DOMAIN s : IsDigit(s[i]) \/ s[i] = "_"
    /\ s[1] # "_" /\ s[Len(s)] # "_"
    /\ \A i \in 1..(Len(s) - 1) : ~(s[i] = "_" /\ s[i + 1] = "_")

SelectChars(s, keep(_)) == SelectSeq(s, keep)

\* Python int(str): surrounding whitespace, an optional sign, digits with
\* optional single underscores; anything else raises ValueError
PyInt(s0) ==
    LET s    == Strip(s0)
        sgn  == IF s # <<>> /\ s[1] \in {"-", "+"} THEN s[1] ELSE ""
        body == IF sgn = "" THEN s ELSE Tail(s)
    IN  IF IntBodyOk(body)
        THEN [st |-> "ok",
              v  |-> (IF sgn = "-" THEN -1 ELSE 1) * DigitsVal(SelectChars(body, IsDigit))]
        ELSE [st |-> "raise", v |-> 0]

\* str.split(sep) / re.split of a one-character class: the pieces between
\* separator characters, empty pieces kept
RECURSIVE SplitAcc(_, _, _, _)
SplitAcc(s, seps, cur, acc) ==
    IF s = <<>> THEN Append(acc, cur)
    ELSE IF Head(s) \in seps
         THEN SplitAcc(Tail(s), seps, <<>>, Append(acc, cur))
         ELSE SplitAcc(Tail(s), seps, Append(cur, Head(s)), acc)

Split(s, seps) == SplitAcc(s, seps, <<>>, <<>>)

\* str.replace(old, new) for one-character old and new
Replace(s, old, new) == [i \in DOMAIN s |-> IF s[i] = old THEN new ELSE s[i]]

\* index of the first "=" of s, 0 when there is none
FirstEq(s) ==
    IF \E i \in DOMAIN s : s[i] = "="
    THEN CHOOSE i \in DOMAIN s : s[i] = "=" /\ \A j \in 1..(i - 1) : s[j] # "="
    ELSE 0

\* length of the longest prefix of s, starting at position from, whose
\* characters all satisfy the class
RECURSIVE RunLen(_, _, _)
RunLen(s, from, class) ==
    IF from <= Len(s) /\ s[from] \in class
    THEN 1 + RunLen(s, from + 1, class) ELSE 0

-----------------------------------------------------------------------------
(* Python dict helpers (insertion ordered)                                  *)

EmptyDict == <<>>

Keys(d) == {d[i].k : i \in DOMAIN d}

HasKey(d, k) == \E i \in DOMAIN d : d[i].k = k

\* d.get(k, dflt)
DictGet(d, k, dflt) ==
    IF HasKey(d, k) THEN d[CHOOSE i \in DOMAIN d : d[i].k = k].v ELSE dflt

\* d[k] = v : an existing key keeps its position, a new key goes last
DictSet(d, k, v) ==
    IF HasKey(d, k)
    THEN [i \in DOMAIN d |-> IF d[i].k = k THEN [k |-> k, v |-> v] ELSE d[i]]
    ELSE Append(d, [k |-> k, v |-> v])

\* d[k] = d.get(k, 0) + pts
DictAdd(d, k, pts) == DictSet(d, k, DictGet(d, k, 0) + pts)

-----------------------------------------------------------------------------
(* Option value parser: _parse_value_to_scales, three copies                *)

\* an option value: None, or a str
NoneVal == [isNone |-> TRUE, s |-> <<>>]
Str(s)  == [isNone |-> FALSE, s |-> s]

TOTAL == <<"T","O","T","A","L">>

\* the eight MBTI dichotomy letters, as one-character strings
MBTI_LETTERS == {<<"E">>, <<"I">>, <<"S">>, <<"N">>, <<"T">>, <<"F">>, <<"J">>, <<"P">>}

\* what a call of the parser did: st is "ok" (it returned map) or "raise";
\* rule is the branch of the function that ended the call
Returned(rule, map) == [st |-> "ok", rule |-> rule, map |-> map]
Raised(rule)        == [st |-> "raise", rule |-> rule, map |-> EmptyDict]

\* services/analysis.py: one token of the composite loop
analysis_token(result, tok) ==
    LET token == Strip(tok)
        eq    == FirstEq(token)
    IN  IF token = <<>> THEN result
        ELSE IF eq = 0 THEN result
        ELSE LET code == Upper(Strip(SubSeq(token, 1, eq - 1)))
                 num  == SubSeq(token, eq + 1, Len(token))
                 pts  == PyInt(Strip(num))
             IN  IF pts.st = "raise" THEN result
                 ELSE DictAdd(result, code, pts.v)

RECURSIVE analysis_tokens(_, _, _)
analysis_tokens(tokens, i, result) ==
    IF i > Len(tokens) THEN result
    ELSE analysis_tokens(tokens, i + 1, analysis_token(result, tokens[i]))

\* the test of the plain-number branch of services/analysis.py
analysis_is_number(s) == IsDigitStr(LStripSet(s, {"-"}))

\* services/analysis.py _parse_value_to_scales
parse_value_to_scales_analysis(v) ==
    IF v.isNone THEN Returned("empty", EmptyDict)
    ELSE LET s  == Strip(v.s)
             up == Upper(s)
         IN  IF s = <<>> THEN Returned("empty", EmptyDict)
             ELSE IF up \in MBTI_LETTERS
                  THEN Returned("mbti", <<[k |-> up, v |-> 1]>>)
             ELSE IF analysis_is_number(s)
                  THEN LET n == PyInt(s)
                       IN  IF n.st = "raise" THEN Raised("int")
                           ELSE Returned("int", <<[k |-> TOTAL, v |-> n.v]>>)
             ELSE Returned("composite",
                           analysis_tokens(Split(Replace(s, ",", ";"), {";"}), 1, EmptyDict))

\* the characters of the class [A-Za-z_] of the token pattern (the class also
\* holds the Cyrillic letters, which the alphabet of the model does not)
CodeChars == LowerSet \cup UpperSet \cup {"_"}

\* re.match(r"([A-Za-z...]+)\s*=?\s*([+-]?\d+)", token): the match is anchored at
\* the start only; the classes of neighbouring parts are disjoint, so the greedy
\* match is the only candidate
re_match_token(token) ==
    LET n1 == RunLen(token, 1, CodeChars)
        p2 == 1 + n1 + RunLen(token, 1 + n1, {" "})
        p3 == IF p2 <= Len(token) /\ token[p2] = "=" THEN p2 + 1 ELSE p2
        p4 == p3 + RunLen(token, p3, {" "})
        p5 == IF p4 <= Len(token) /\ token[p4] \in {"+", "-"} THEN p4 + 1 ELSE p4
        nd == RunLen(token, p5, DigitSet)
    IN  IF n1 >= 1 /\ nd >= 1
        THEN [ok |-> TRUE, g1 |-> SubSeq(token, 1, n1),
              g2 |-> SubSeq(token, p4, p5 + nd - 1)]
        ELSE [ok |-> FALSE, g1 |-> <<>>, g2 |-> <<>>]

\* re.fullmatch(r"-?\d+", s)
re_fullmatch_int(s) ==
    IF s # <<>> /\ s[1] = "-" THEN IsDigitStr(Tail(s)) ELSE IsDigitStr(s)

\* blueprints/student.py: one token of the composite loop
student_token(result, tok) ==
    LET token == Strip(tok)
        m     == re_match_token(token)
    IN  IF token = <<>> THEN result
        ELSE IF m.ok THEN DictAdd(result, Upper(m.g1), PyInt(m.g2).v)
        ELSE result

RECURSIVE student_tokens(_, _, _)
student_tokens(tokens, i, result) ==
    IF i > Len(tokens) THEN result
    ELSE student_tokens(tokens, i + 1, student_token(result, tokens[i]))

\* blueprints/student.py _parse_value_to_scales
parse_value_to_scales_student(v) ==
    IF v.isNone THEN Returned("empty", EmptyDict)
    ELSE LET s == Strip(v.s)
         IN  IF s = <<>> THEN Returned("empty", EmptyDict)
             ELSE IF Upper(s) \in MBTI_LETTERS
                  THEN Returned("mbti", <<[k |-> Upper(s), v |-> 1]>>)
             ELSE IF re_fullmatch_int(s)
                  THEN LET n == PyInt(s)
                       IN  IF n.st = "raise" THEN Raised("int")
                           ELSE Returned("int", <<[k |-> TOTAL, v |-> n.v]>>)
             ELSE Returned("composite", student_tokens(Split(s, {";", ","}), 1, EmptyDict))

\* blueprints/psych.py: one token of the composite loop
psych_token(res, tok) ==
    LET token == Strip(tok)
        m     == re_match_token(token)
    IN  IF token = <<>> THEN res
        ELSE IF m.ok THEN DictAdd(res, Upper(m.g1), PyInt(m.g2).v)
        ELSE res

RECURSIVE psych_tokens(_, _, _)
psych_tokens(tokens, i, res) ==
    IF i > Len(tokens) THEN res
    ELSE psych_tokens(tokens, i + 1, psych_token(res, tokens[i]))

\* blueprints/psych.py _parse_value_to_scales
parse_value_to_scales_psych(v) ==
    IF v.isNone THEN Returned("empty", EmptyDict)
    ELSE LET s == Strip(v.s)
             u == Upper(s)
         IN  IF s = <<>> THEN Returned("empty", EmptyDict)
             ELSE IF u \in MBTI_LETTERS
                  THEN Returned("mbti", <<[k |-> u, v |-> 1]>>)
             ELSE IF re_fullmatch_int(s)
                  THEN LET n == PyInt(s)
                       IN  IF n.st = "raise" THEN Raised("int")
                           ELSE Returned("int", <<[k |-> TOTAL, v |-> n.v]>>)
             ELSE Returned("composite", psych_tokens(Split(s, {";", ","}), 1, EmptyDict))

-----------------------------------------------------------------------------
(* Inputs of the parser flow                                                *)

\* the characters the exhaustive enumeration uses: an MBTI letter in both
\* cases, another letter, a digit, the signs, "=", both separators, a blank
\* and the underscore of the code class
Alphabet == {"E", "e", "c", "1", "-", "+", "=", ";", ",", " ", "_"}

StringsUpTo(n) == UNION {[1..k -> Alphabet] : k \in 0..n}

\* longer option values: the examples of the grammar and of its corner cases
Samples == {
    <<"C","O","M","M","=","3",";","O","R","G","=","-","1">>,
    <<"c","o","m","m","=","2",",","c","o","m","m","=","1">>,
    <<"C","O","M","M","3">>,
    <<"C","O","M","M","=","3","x">>,
    <<"C","=","1","_","1">>,
    <<"C"," ","="," ","-","2">>,
    <<"C","=","1",";","x",";","E","=","2">>,
    <<"R","I","A","=","1">>,
    <<"T","O","T","A","L","=","5">>,
    <<"A","_","B","=","3">>,
    <<"A"," ","1","=","3">>,
    <<"-","-","1","2">>,
    <<" ","-","1","2"," ">>,
    <<"1","=","1",";","C","=","1">> }

OptionValues == {NoneVal} \cup {Str(s) : s \in StringsUpTo(MaxLen) \cup Samples}

\* a parser that has not been called yet
NotCalled == [st |-> "none", rule |-> "none", map |-> EmptyDict]

Impls == {"analysis", "student", "psych"}

\* the values of the variables of the flows a behaviour does not model
NoTest    == [slug |-> "", questions |-> <<>>]
NoAnswers == <<>>
NoAgg     == [i \in Impls |-> [st |-> "none", per |-> EmptyDict, raw |-> 0, max_score |-> 0]]
NoPer     == [slug |-> "", per |-> EmptyDict, raw |-> 0, max_score |-> 0]
NoInterp  == [i \in Impls |-> [st |-> "none", branch |-> "none", hasCode |-> FALSE,
                                code |-> <<>>, lead |-> <<>>, ranking |-> <<>>,
                                bullets |-> <<>>]]
NoPct     == [has |-> FALSE, pct |-> 0]
NoView    == [st |-> "none", lang |-> "", score_pct |-> NoPct]
NoneRaw   == [isNone |-> TRUE, n |-> 0]
NoRisk    == [st |-> "none", raw |-> NoneRaw, lang |-> "",
              out |-> [isNone |-> TRUE, level |-> "", color |-> "", lang |-> ""]]
NoRisks   == [st |-> "none", student_ids |-> <<>>, lang |-> "", out |-> <<>>]
NoDigest  == [st |-> "none", user_id |-> 0, lang |-> "", profile_text |-> <<>>,
              summary |-> <<>>]
NoPage    == [st |-> "none", view |-> "", user_id |-> 0, attempt_id |-> 0,
              hide_details |-> FALSE, rows |-> <<>>, summary |-> <<>>,
              per_scale |-> <<>>, listed |-> <<>>]
NoTotals  == [st |-> "none", raw |-> 0, max_score |-> 0]
NoMbti    == [st |-> "none", counts |-> <<>>, type_code |-> <<>>]
NoScored  == [raw_total |-> NoTotals, mbti |-> NoMbti]

\* the workers that serve requests at the same time, and a worker at rest
Workers == {"w1", "w2"}
Idle    == [op |-> "idle"]
NoReqs  == [w \in Workers |-> Idle]

-----------------------------------------------------------------------------
(* Parser flow: one option value, handed to each copy of the parser         *)

InitParse ==
    /\ pc = "parse"
    /\ val \in OptionValues
    /\ parsed = [i \in Impls |-> NotCalled]
    /\ test = NoTest /\ answers = NoAnswers /\ agg = NoAgg
    /\ per_in = NoPer /\ interp = NoInterp /\ view = NoView /\ risk = NoRisk
    /\ tests = {} /\ attempts = <<>> /\ risks = NoRisks /\ digest = NoDigest /\ page = NoPage
    /\ answer_rows = <<>> /\ scored = NoScored /\ reqs = NoReqs

ParseAnalysis ==
    /\ pc = "parse" /\ parsed.analysis.st = "none"
    /\ parsed' = [parsed EXCEPT !.analysis = parse_value_to_scales_analysis(val)]
    /\ UNCHANGED <<pc, val, test, answers, agg, per_in, interp, view, risk, tests, attempts, risks, digest, page,
                   answer_rows, scored, reqs>>

ParseStudent ==
    /\ pc = "parse" /\ parsed.student.st = "none"
    /\ parsed' = [parsed EXCEPT !.student = parse_value_to_scales_student(val)]
    /\ UNCHANGED <<pc, val, test, answers, agg, per_in, interp, view, risk, tests, attempts, risks, digest, page,
                   answer_rows, scored, reqs>>

ParsePsych ==
    /\ pc = "parse" /\ parsed.psych.st = "none"
    /\ parsed' = [parsed EXCEPT !.psych = parse_value_to_scales_psych(val)]
    /\ UNCHANGED <<pc, val, test, answers, agg, per_in, interp, view, risk, tests, attempts, risks, digest, page,
                   answer_rows, scored, reqs>>

NextParse == ParseAnalysis \/ ParseStudent \/ ParsePsych

SpecParse == InitParse /\ [][NextParse]_vars

-----------------------------------------------------------------------------
(* Properties of the parser flow                                            *)

\* two dicts hold the same items (dict equality ignores insertion order)
DictEq(d1, d2) ==
    /\ Keys(d1) = Keys(d2)
    /\ \A k \in Keys(d1) : DictGet(d1, k, 0) = DictGet(d2, k, 0)

Called(i) == parsed[i].st # "none"

\* None, empty or whitespace-only
BlankValue(v) == v.isNone \/ Strip(v.s) = <<>>

\* an optional leading "-" followed by one or more digits
ClaimBareInt(s) ==
    /\ s # <<>>
    /\ LET body == IF s[1] = "-" THEN Tail(s) ELSE s
       IN  body # <<>> /\ \A i \in DOMAIN body : IsDigit(body[i])

ClaimIntValue(s) ==
    IF s[1] = "-" THEN -DigitsVal(Tail(s)) ELSE DigitsVal(s)

LetterSet == LowerSet \cup UpperSet

\* a token that is, as a whole, CODE[=]signed-integer: letters, an optional
\* "=", an optional sign, digits
ClaimTokenForm(tok) ==
    LET n1 == RunLen(tok, 1, LetterSet)
        p2 == IF 1 + n1 <= Len(tok) /\ tok[1 + n1] = "=" THEN n1 + 2 ELSE n1 + 1
        p3 == IF p2 <= Len(tok) /\ tok[p2] \in {"+", "-"} THEN p2 + 1 ELSE p2
        nd == RunLen(tok, p3, DigitSet)
    IN  n1 >= 1 /\ nd >= 1 /\ p3 + nd - 1 = Len(tok)

ClaimTokenCode(tok) ==
    Upper(SubSeq(tok, 1, RunLen(tok, 1, LetterSet)))

ClaimTokenPoints(tok) ==
    LET n1   == RunLen(tok, 1, LetterSet)
        p2   == IF tok[1 + n1] = "=" THEN n1 + 2 ELSE n1 + 1
        neg  == tok[p2] = "-"
        p3   == IF tok[p2] \in {"+", "-"} THEN p2 + 1 ELSE p2
    IN  (IF neg THEN -1 ELSE 1) * DigitsVal(SubSeq(tok, p3, Len(tok)))

\* a token that holds no digit cannot carry a signed integer in any reading
ClaimTokenHopeless(tok) == \A i \in DOMAIN tok : ~IsDigit(tok[i])

RECURSIVE ClaimCompositeSum(_, _, _)
ClaimCompositeSum(tokens, i, acc) ==
    IF i > Len(tokens) THEN acc
    ELSE LET tok == Strip(tokens[i])
         IN  ClaimCompositeSum(tokens, i + 1,
                 IF ClaimTokenForm(tok)
                 THEN DictAdd(acc, ClaimTokenCode(tok), ClaimTokenPoints(tok))
                 ELSE acc)

\* the values on which the composite rule has one reading only: every token is
\* wholly of the form CODE[=]signed-integer, or holds no digit at all
ClaimClearComposite(s) ==
    LET tokens == Split(s, {";", ","})
    IN  \A i \in DOMAIN tokens :
            LET tok == Strip(tokens[i])
            IN  ClaimTokenForm(tok) \/ ClaimTokenHopeless(tok)

\* C1: parser totality - none of the three copies of _parse_value_to_scales
\* raises on any input, and None, empty and whitespace-only input give the
\* empty mapping.
C1_ParserTotality ==
    \A i \in Impls :
        /\ parsed[i].st # "raise"
        /\ (Called(i) /\ BlankValue(val)) => parsed[i].map = EmptyDict

\* C2: the three copies of the parser return the same mapping for every
\* option value (and so the aggregators built on them agree).
C2_ParsersAgree ==
    (\A i \in Impls : Called(i)) =>
        \A i, j \in Impls :
            /\ parsed[i].st = parsed[j].st
            /\ DictEq(parsed[i].map, parsed[j].map)

\* C3: composite parsing - for a value that is neither a single MBTI letter
\* nor a bare integer, every token CODE[=]signed-integer adds its integer to
\* the upper-cased CODE (same codes summed), the other tokens are skipped, and
\* with no matching token the result is empty.  Stated for student.py and
\* analysis.py on the values whose tokens have one reading only.
C3_CompositeParsing ==
    \A i \in {"student", "analysis"} :
        (/\ Called(i) /\ ~BlankValue(val)
         /\ Upper(Strip(val.s)) \notin MBTI_LETTERS
         /\ ~ClaimBareInt(Strip(val.s))
         /\ ClaimClearComposite(Strip(val.s)))
        => /\ parsed[i].st = "ok"
           /\ DictEq(parsed[i].map,
                     ClaimCompositeSum(Split(Strip(val.s), {";", ","}), 1, EmptyDict))

\* C4: plain integer parsing with rule priority - a trimmed value that is an
\* optional "-" and digits parses to exactly {TOTAL: n}; the rule comes after
\* the MBTI letter rule and before the composite rule, and parses no other
\* string.  Stated for student.py and analysis.py.
C4_PlainInteger ==
    \A i \in {"student", "analysis"} :
        (Called(i) /\ ~BlankValue(val)) =>
            LET s == Strip(val.s)
            IN  /\ ClaimBareInt(s) =>
                     parsed[i] = Returned("int", <<[k |-> TOTAL, v |-> ClaimIntValue(s)]>>)
                /\ parsed[i].rule = "int" => ClaimBareInt(s)
                /\ Upper(s) \in MBTI_LETTERS => parsed[i].rule = "mbti"
                /\ (~ClaimBareInt(s) /\ Upper(s) \notin MBTI_LETTERS) =>
                     (parsed[i].rule = "composite" /\ parsed[i].st = "ok")

\* C5: scale-code invariant - every key of every parser result is a non-empty
\* token of upper-case letters only (TOTAL is one).
C5_ScaleCodes ==
    \A i \in Impls :
        \A key \in Keys(parsed[i].map) :
            key # <<>> /\ \A n \in DOMAIN key : IsUpper(key[n])

-----------------------------------------------------------------------------
(* Scale aggregator: _calc_scales_and_totals, three copies                  *)
(*                                                                          *)
(* questions is the list of TestQuestion rows of the instrument in          *)
(* ascending order; a question is [id, options], options the TestOption     *)
(* rows in ascending order, an option [id, value].  answers_by_qid maps a   *)
(* question id to its TestAnswer row: [row |-> FALSE] when there is none,   *)
(* else option_id, 0 standing for NULL.                                     *)

AggStart == [st |-> "ok", per |-> EmptyDict, raw |-> 0, max_score |-> 0]

Max2(a, b) == IF a >= b THEN a ELSE b

\* next((o for o in opts if o.id == ans.option_id), None): 0 when there is none
ChosenIndex(opts, option_id) ==
    IF \E n \in DOMAIN opts : opts[n].id = option_id
    THEN CHOOSE n \in DOMAIN opts : opts[n].id = option_id
    ELSE 0

\* for code, pts in parsed.items(): per[code] = per.get(code, 0) + pts
RECURSIVE AddItems(_, _, _)
AddItems(per, items, n) ==
    IF n > Len(items) THEN per
    ELSE AddItems(DictAdd(per, items[n].k, items[n].v), items, n + 1)

\* ---- blueprints/student.py ----

\* the loop over opts that computes max_q_total
RECURSIVE student_max_q_total(_, _, _)
student_max_q_total(opts, n, max_q_total) ==
    IF n > Len(opts) THEN max_q_total
    ELSE student_max_q_total(opts, n + 1,
             Max2(max_q_total,
                  DictGet(parse_value_to_scales_student(opts[n].value).map, TOTAL, 0)))

\* a slip of the loop body: the ceiling is counted after the "continue" of an
\* unanswered question, so only answered questions raise max_score
student_question_answered_only(acc, q, answers_by_qid) ==
    LET opts   == q.options
        acc1   == [acc EXCEPT !.max_score = @ + student_max_q_total(opts, 1, 0)]
        ans    == answers_by_qid[q.id]
        chosen == ChosenIndex(opts, ans.option_id)
    IN  IF ~ans.row THEN acc
        ELSE IF chosen = 0 THEN acc1
        ELSE LET parsed_c == parse_value_to_scales_student(opts[chosen].value).map
             IN  [acc1 EXCEPT !.per = AddItems(@, parsed_c, 1),
                              !.raw = @ + DictGet(parsed_c, TOTAL, 0)]

\* the body of the loop over questions
student_question(acc, q, answers_by_qid) ==
    LET opts   == q.options
        acc1   == [acc EXCEPT !.max_score = @ + student_max_q_total(opts, 1, 0)]
        ans    == answers_by_qid[q.id]
        chosen == ChosenIndex(opts, ans.option_id)
    IN  IF ~ans.row THEN acc1
        ELSE IF chosen = 0 THEN acc1
        ELSE LET parsed_c == parse_value_to_scales_student(opts[chosen].value).map
             IN  [acc1 EXCEPT !.per = AddItems(@, parsed_c, 1),
                              !.raw = @ + DictGet(parsed_c, TOTAL, 0)]

RECURSIVE student_questions(_, _, _, _)
student_questions(acc, questions, n, answers_by_qid) ==
    IF n > Len(questions) THEN acc
    ELSE student_questions(student_question(acc, questions[n], answers_by_qid),
                           questions, n + 1, answers_by_qid)

calc_scales_and_totals_student(questions, answers_by_qid) ==
    student_questions(AggStart, questions, 1, answers_by_qid)

\* ---- blueprints/psych.py ----

\* a slip of the loop over opts: max() is forgotten, so the ceiling of a
\* question is the TOTAL of its last option
psych_max_q_last(opts, n, max_q) ==
    IF opts = <<>> THEN max_q
    ELSE DictGet(parse_value_to_scales_psych(opts[Len(opts)].value).map, TOTAL, 0)

RECURSIVE psych_max_q(_, _, _)
psych_max_q(opts, n, max_q) ==
    IF n > Len(opts) THEN max_q
    ELSE psych_max_q(opts, n + 1,
             Max2(max_q, DictGet(parse_value_to_scales_psych(opts[n].value).map, TOTAL, 0)))

psych_question(acc, q, answers_by_qid) ==
    LET opts   == q.options
        acc1   == [acc EXCEPT !.max_score = @ + psych_max_q(opts, 1, 0)]
        ans    == answers_by_qid[q.id]
        chosen == ChosenIndex(opts, ans.option_id)
    IN  IF ~ans.row THEN acc1
        ELSE IF chosen = 0 THEN acc1
        ELSE LET parsed_c == parse_value_to_scales_psych(opts[chosen].value).map
             IN  [acc1 EXCEPT !.per = AddItems(@, parsed_c, 1),
                              !.raw = @ + DictGet(parsed_c, TOTAL, 0)]

RECURSIVE psych_questions(_, _, _, _)
psych_questions(acc, qs, n, answers_by_qid) ==
    IF n > Len(qs) THEN acc
    ELSE psych_questions(psych_question(acc, qs[n], answers_by_qid),
                         qs, n + 1, answers_by_qid)

calc_scales_and_totals_psych(qs, answers_by_qid) ==
    psych_questions(AggStart, qs, 1, answers_by_qid)

\* ---- services/analysis.py: a parser call that raises ends the whole call ----

AggRaised == [st |-> "raise", per |-> EmptyDict, raw |-> 0, max_score |-> 0]

\* the loop over opts: [st, v], st "raise" when a parser call raised
RECURSIVE analysis_max_q_total(_, _, _)
analysis_max_q_total(opts, n, max_q_total) ==
    IF n > Len(opts) THEN [st |-> "ok", v |-> max_q_total]
    ELSE LET parsed_o == parse_value_to_scales_analysis(opts[n].value)
         IN  IF parsed_o.st = "raise" THEN [st |-> "raise", v |-> 0]
             ELSE analysis_max_q_total(opts, n + 1,
                      Max2(max_q_total, DictGet(parsed_o.map, TOTAL, 0)))

analysis_question(acc, q, ans_by_q) ==
    LET opts   == q.options
        mq     == analysis_max_q_total(opts, 1, 0)
        acc1   == [acc EXCEPT !.max_score = @ + mq.v]
        ans    == ans_by_q[q.id]
        chosen == ChosenIndex(opts, ans.option_id)
    IN  IF mq.st = "raise" THEN AggRaised
        ELSE IF ~ans.row THEN acc1
        ELSE IF chosen = 0 THEN acc1
        ELSE LET parsed_c == parse_value_to_scales_analysis(opts[chosen].value)
             IN  IF parsed_c.st = "raise" THEN AggRaised
                 ELSE [acc1 EXCEPT !.per = AddItems(@, parsed_c.map, 1),
                                   !.raw = @ + DictGet(parsed_c.map, TOTAL, 0)]

RECURSIVE analysis_questions(_, _, _, _)
analysis_questions(acc, qs, n, ans_by_q) ==
    IF n > Len(qs) \/ acc.st = "raise" THEN acc
    ELSE analysis_questions(analysis_question(acc, qs[n], ans_by_q), qs, n + 1, ans_by_q)

calc_scales_and_totals_analysis(qs, ans_by_q) ==
    analysis_questions(AggStart, qs, 1, ans_by_q)

-----------------------------------------------------------------------------
(* Inputs of the aggregator flow                                            *)

\* the option values of one question, by kind of question
OptionLists == {
    \* a scored item that also offers an MBTI letter
    << Str(<<"1">>), Str(<<"2">>), Str(<<"e">>) >>,
    \* an item whose options are all negative
    << Str(<<"-","1">>), Str(<<"-","2">>) >>,
    \* weighted codes, one of them the reserved code
    << Str(<<"C","=","2",";","E","=","1">>), Str(<<"T","O","T","A","L","=","3",",","C","=","-","1">>) >>,
    \* hand-authored slips (a doubled sign, a missing "=") and no value at all
    << Str(<<"-","-","1">>), Str(<<"c","1">>), NoneVal >> }

OptionId(qn, on) == 10 * qn + on

MakeQuestion(qn, values) ==
    [id |-> qn, options |-> [on \in DOMAIN values |-> [id |-> OptionId(qn, on), value |-> values[on]]]]

\* the instruments: 1..MaxQuestions questions, each of one of the kinds
Instruments ==
    UNION { {[qn \in 1..n |-> MakeQuestion(qn, f[qn])] : f \in [1..n -> OptionLists]}
            : n \in 1..MaxQuestions }

NoRow == [row |-> FALSE, option_id |-> 0]

\* an option that is not one of the question's own: the first option of the
\* next question (or of no question, when there is no next one)
ForeignOption(q) == OptionId(q.id + 1, 1)

\* what a TestAnswer row of a question may hold
AnswerChoices(q) ==
    {NoRow, [row |-> TRUE, option_id |-> 0], [row |-> TRUE, option_id |-> ForeignOption(q)]}
    \cup {[row |-> TRUE, option_id |-> q.options[on].id] : on \in DOMAIN q.options}

\* every way of giving each question one of its choices
RECURSIVE AnswerSetsUpTo(_, _)
AnswerSetsUpTo(questions, n) ==
    IF n = 0 THEN {<<>>}
    ELSE {Append(a, c) : a \in AnswerSetsUpTo(questions, n - 1),
                          c \in AnswerChoices(questions[n])}

AnswerSets(questions) == AnswerSetsUpTo(questions, Len(questions))

-----------------------------------------------------------------------------
(* Aggregator flow: one instrument and one answer set, handed to each copy  *)
(* in turn (the calls do not touch the rows, so their order is immaterial)  *)

InitAgg ==
    /\ pc = "aggregate"
    /\ test \in {[slug |-> "", questions |-> qs] : qs \in Instruments}
    /\ answers \in AnswerSets(test.questions)
    /\ agg = NoAgg
    /\ val = NoneVal /\ parsed = [i \in Impls |-> NotCalled]
    /\ per_in = NoPer /\ interp = NoInterp /\ view = NoView /\ risk = NoRisk
    /\ tests = {} /\ attempts = <<>> /\ risks = NoRisks /\ digest = NoDigest /\ page = NoPage
    /\ answer_rows = <<>> /\ scored = NoScored /\ reqs = NoReqs

CalcAnalysis ==
    /\ pc = "aggregate" /\ agg.analysis.st = "none"
    /\ agg' = [agg EXCEPT !.analysis = calc_scales_and_totals_analysis(test.questions, answers)]
    /\ UNCHANGED <<pc, val, parsed, test, answers, per_in, interp, view, risk, tests, attempts, risks, digest, page,
                   answer_rows, scored, reqs>>

CalcStudent ==
    /\ pc = "aggregate" /\ agg.analysis.st # "none" /\ agg.student.st = "none"
    /\ agg' = [agg EXCEPT !.student = calc_scales_and_totals_student(test.questions, answers)]
    /\ UNCHANGED <<pc, val, parsed, test, answers, per_in, interp, view, risk, tests, attempts, risks, digest, page,
                   answer_rows, scored, reqs>>

CalcPsych ==
    /\ pc = "aggregate" /\ agg.student.st # "none" /\ agg.psych.st = "none"
    /\ agg' = [agg EXCEPT !.psych = calc_scales_and_totals_psych(test.questions, answers)]
    /\ UNCHANGED <<pc, val, parsed, test, answers, per_in, interp, view, risk, tests, attempts, risks, digest, page,
                   answer_rows, scored, reqs>>

NextAgg == CalcAnalysis \/ CalcStudent \/ CalcPsych

SpecAgg == InitAgg /\ [][NextAgg]_vars

-----------------------------------------------------------------------------
(* Properties of the aggregator flow                                        *)

ParseOf(i, v) ==
    CASE i = "analysis" -> parse_value_to_scales_analysis(v)
      [] i = "student"  -> parse_value_to_scales_student(v)
      [] i = "psych"    -> parse_value_to_scales_psych(v)

SetMax(S) == CHOOSE x \in S : \A y \in S : x >= y

RECURSIVE SeqSum(_)
SeqSum(s) == IF s = <<>> THEN 0 ELSE Head(s) + SeqSum(Tail(s))

\* max(0, highest TOTAL contribution among the options of q)
ClaimBestTotal(i, q) ==
    SetMax({0} \cup {DictGet(ParseOf(i, q.options[on].value).map, TOTAL, 0) : on \in DOMAIN q.options})

ClaimMaxScore(i, questions) ==
    SeqSum([qn \in DOMAIN questions |-> ClaimBestTotal(i, questions[qn])])

\* the question has a recorded answer whose option is one of its own
ClaimValidAnswer(q, ans) ==
    ans[q.id].row /\ \E on \in DOMAIN q.options : q.options[on].id = ans[q.id].option_id

ClaimSelectedValue(q, ans) ==
    q.options[CHOOSE on \in DOMAIN q.options : q.options[on].id = ans[q.id].option_id].value

\* the points the selected option of q gives to code, 0 without a valid answer
ClaimContribution(i, q, ans, code) ==
    IF ClaimValidAnswer(q, ans)
    THEN DictGet(ParseOf(i, ClaimSelectedValue(q, ans)).map, code, 0)
    ELSE 0

ClaimCodeTotal(i, questions, ans, code) ==
    SeqSum([qn \in DOMAIN questions |-> ClaimContribution(i, questions[qn], ans, code)])

ClaimCodes(i, questions, ans) ==
    UNION {Keys(ParseOf(i, ClaimSelectedValue(questions[qn], ans)).map) :
              qn \in {n \in DOMAIN questions : ClaimValidAnswer(questions[n], ans)}}

C7_AggregationResult ==
    \A i \in {"student", "analysis"} :
        agg[i].st # "none" =>
            /\ agg[i].st = "ok"
            /\ Keys(agg[i].per) = ClaimCodes(i, test.questions, answers)
            /\ \A code \in Keys(agg[i].per) :
                  DictGet(agg[i].per, code, 0) = ClaimCodeTotal(i, test.questions, answers, code)
            /\ agg[i].raw = ClaimCodeTotal(i, test.questions, answers, TOTAL)
            /\ (\A qn \in DOMAIN test.questions : ~ClaimValidAnswer(test.questions[qn], answers))
                  => (agg[i].raw = 0 /\ agg[i].per = EmptyDict)

\* C23: score ceiling - for every instrument and every answer set the
\* aggregators of student.py and psych.py return 0 <= max_score and
\* raw <= max_score, so a percentage 100*raw/max_score taken when
\* max_score > 0 is at most 100.
C23_ScoreCeiling ==
    \A i \in {"student", "psych"} :
        agg[i].st # "none" =>
            /\ agg[i].st = "ok"
            /\ 0 <= agg[i].max_score
            /\ agg[i].raw <= agg[i].max_score
            /\ agg[i].max_score > 0 => 100 * agg[i].raw <= 100 * agg[i].max_score

\* C23 witness: both aggregators ran on an answer set that reaches the
\* ceiling of an instrument with a positive ceiling.
C23_Witness ==
    /\ agg.student.st = "ok" /\ agg.psych.st = "ok"
    /\ agg.student.max_score > 0 /\ agg.student.raw = agg.student.max_score
    /\ agg.psych.max_score > 0 /\ agg.psych.raw = agg.psych.max_score

-----------------------------------------------------------------------------
(* Interpretation routines: _interpret (student.py), _interpretation        *)
(* (psych.py), _humanize and _mbti_code_from_per (analysis.py)              *)
(*                                                                          *)
(* A result is [st, branch, hasCode, code, lead, ranking]: branch is the    *)
(* return statement that ended the call, code the "code" entry of the       *)
(* returned dict (hasCode FALSE when the dict has none), lead the leading   *)
(* category and ranking the ordered list the routine emits.                 *)

\* the "—" placeholder the routines put where there is nothing to show
PLACEHOLDER == <<"--">>

NoCode == <<>>

InterpResult(branch, hasCode, code, lead, ranking) ==
    [st |-> "ok", branch |-> branch, hasCode |-> hasCode, code |-> code,
     lead |-> lead, ranking |-> ranking, bullets |-> <<>>]

InterpRaised == [st |-> "raise", branch |-> "raise", hasCode |-> FALSE, code |-> NoCode,
                 lead |-> NoCode, ranking |-> <<>>, bullets |-> <<>>]

\* [x for x in items if keep(x)]
RECURSIVE Filter(_, _, _)
Filter(items, keep(_), n) ==
    IF n > Len(items) THEN <<>>
    ELSE IF keep(items[n]) THEN <<items[n]>> \o Filter(items, keep, n + 1)
    ELSE Filter(items, keep, n + 1)

\* a slip of the sort: an item goes before the items of equal count, so equal
\* counts come out in the reverse of the input order
InsertDescBeforeEqual(sorted, x) ==
    LET after == Cardinality({n \in DOMAIN sorted : sorted[n].v > x.v})
    IN  SubSeq(sorted, 1, after) \o <<x>> \o SubSeq(sorted, after + 1, Len(sorted))

\* sorted(items, key=lambda kv: -kv[1]): stable, so equal counts keep the
\* order of the input
InsertDesc(sorted, x) ==
    LET after == Cardinality({n \in DOMAIN sorted : sorted[n].v >= x.v})
    IN  SubSeq(sorted, 1, after) \o <<x>> \o SubSeq(sorted, after + 1, Len(sorted))

RECURSIVE SortedDesc(_, _, _)
SortedDesc(items, n, sorted) ==
    IF n > Len(items) THEN sorted
    ELSE SortedDesc(items, n + 1, InsertDesc(sorted, items[n]))

\* "".join(k for k, _ in items)
RECURSIVE JoinKeys(_)
JoinKeys(items) == IF items = <<>> THEN <<>> ELSE Head(items).k \o JoinKeys(Tail(items))

\* items[:n]
Take(items, n) == SubSeq(items, 1, IF Len(items) < n THEN Len(items) ELSE n)

RIASEC == <<"R","I","A","S","E","C">>

\* k in "RIASEC" for str k: the substring test
InStr(k, s) == \E i \in 0..(Len(s) - Len(k)) : SubSeq(s, i + 1, i + Len(k)) = k

\* k in set("RIASEC"): k is one of the six one-character strings
InSet(k, s) == \E i \in DOMAIN s : k = <<s[i]>>

MBTI_PAIRS == << <<"E","I">>, <<"S","N">>, <<"T","F">>, <<"J","P">> >>

KLIMOV_CODES == {<<"H">>, <<"T">>, <<"N">>, <<"S">>, <<"A">>}

\* names[k] of the klimov branches: the name of the category k; student.py
\* holds the short names, analysis.py the full ones
KlimovName(k, table) == [category |-> k, names |-> table]

\* the "—" that stands where a category name would
NoCategory == [category |-> PLACEHOLDER, names |-> "none"]

\* One bullet of a result.  kind is "scale" (a scale with its value and
\* band), "percent" (a percentage with its band), "risk" (a raw score with its
\* risk level) or "text" (a sentence that holds no number); band is the band
\* word: its level and the language the word is in.
Bullet(kind, scale, value, band) ==
    [kind |-> kind, scale |-> scale, value |-> value, band |-> band]

NoBand == [level |-> "", lang |-> ""]

BandWord(level, lang) == [level |-> level, lang |-> lang]

TextBullet(id) == Bullet("text", id, 0, NoBand)

\* the bullet of one MBTI pair: "a:va trend b:vb -> pick"; trend is "approx"
\* for the sign of approximate equality and "greater" for ">"
PairBullet(a, va, trend, b, vb, pick) ==
    [kind |-> "pair", a |-> a, va |-> va, trend |-> trend, b |-> b, vb |-> vb, pick |-> pick]

WithBullets(res, bullets) == [res EXCEPT !.bullets = bullets]

COMM == <<"C","O","M","M">>

ORG == <<"O","R","G">>

\* int(a / b) for b > 0: the quotient, truncated toward zero
PyIntDiv(a, b) == IF a >= 0 THEN a \div b ELSE -((-a) \div b)

\* ---- blueprints/student.py _interpret ----

\* a slip of the comparison: the tie goes to the second letter of the pair
student_pick_strict(per, pair) ==
    LET va == DictGet(per, <<pair[1]>>, 0)
        vb == DictGet(per, <<pair[2]>>, 0)
    IN  IF va > vb THEN pair[1] ELSE pair[2]

\* pick = a if va >= vb else b
student_pick(per, pair) ==
    LET va == DictGet(per, <<pair[1]>>, 0)
        vb == DictGet(per, <<pair[2]>>, 0)
    IN  IF va >= vb THEN pair[1] ELSE pair[2]

\* explain.append(f"... {a}:{va} {trend} {b}:{vb} -> <b>{pick}</b>"), with
\* trend = "≈" if va == vb else ">"
student_explain(per, pair) ==
    LET va == DictGet(per, <<pair[1]>>, 0)
        vb == DictGet(per, <<pair[2]>>, 0)
    IN  PairBullet(pair[1], va, IF va = vb THEN "approx" ELSE "greater", pair[2], vb,
                   student_pick(per, pair))

student_mbti(per) ==
    LET code == [n \in DOMAIN MBTI_PAIRS |-> student_pick(per, MBTI_PAIRS[n])]
    IN  WithBullets(InterpResult("mbti", TRUE, code, NoCode, <<>>),
                    <<TextBullet("type"), TextBullet("disclaimer"), TextBullet("hint")>>
                    \o [n \in DOMAIN MBTI_PAIRS |-> student_explain(per, MBTI_PAIRS[n])])

student_holland_keep(kv) == InStr(kv.k, RIASEC)

student_holland(per) ==
    LET order == SortedDesc(Filter(per, student_holland_keep, 1), 1, <<>>)
        top3  == IF JoinKeys(Take(order, 3)) = <<>> THEN PLACEHOLDER
                 ELSE JoinKeys(Take(order, 3))
    IN  InterpResult("holland", TRUE, top3, NoCode, order)

student_klimov_keep(kv) == kv.k \in KLIMOV_CODES

student_klimov(per) ==
    LET kept  == Filter(per, student_klimov_keep, 1)
        named == [n \in DOMAIN kept |-> [k |-> KlimovName(kept[n].k, "short"), v |-> kept[n].v]]
        order == SortedDesc(named, 1, <<>>)
        lead  == IF order # <<>> THEN order[1].k ELSE NoCategory
    IN  InterpResult("klimov", TRUE, lead, lead, order)

\* lvl(x) of the kos2 branch
student_lvl(x) == IF x >= 8 THEN "high" ELSE IF x >= 4 THEN "medium" ELSE "low"

student_kos2(per) ==
    LET comm == DictGet(per, COMM, 0)
        org  == DictGet(per, ORG, 0)
    IN  WithBullets(InterpResult("kos2", FALSE, NoCode, NoCode, <<>>),
                    << Bullet("scale", "COMM", comm, BandWord(student_lvl(comm), "ru")),
                       Bullet("scale", "ORG", org, BandWord(student_lvl(org), "ru")),
                       TextBullet("tips") >>)

\* the branch of interests, thinking, child_type and bennett: the three
\* leading scales, and for bennett with a max_score the percentage
student_scales(slug, per, raw, max_score) ==
    LET ordered == IF per # <<>> THEN SortedDesc(per, 1, <<>>) ELSE <<>>
        pct     == PyIntDiv(100 * raw, max_score)
        cat     == IF pct >= 75 THEN "high" ELSE IF pct >= 40 THEN "medium" ELSE "low"
    IN  WithBullets(InterpResult("scales", FALSE, NoCode, NoCode, Take(ordered, 3)),
                    <<TextBullet("top")>>
                    \o (IF slug = "bennett" /\ max_score # 0
                        THEN <<Bullet("percent", "", pct, BandWord(cat, "ru"))>>
                        ELSE <<>>))

student_cdi(raw) ==
    LET level == IF raw >= 19 THEN "high" ELSE IF raw >= 13 THEN "moderate" ELSE "low"
    IN  WithBullets(InterpResult("cdi", FALSE, NoCode, NoCode, <<>>),
                    << Bullet("risk", "", raw, BandWord(level, "ru")),
                       TextBullet("psychologist") >>)

interpret_student(slug, per, raw, max_score) ==
    CASE slug = "mbti"    -> student_mbti(per)
      [] slug = "holland" -> student_holland(per)
      [] slug = "klimov"  -> student_klimov(per)
      [] slug = "kos2"    -> student_kos2(per)
      [] slug \in {"interests", "thinking", "child_type", "bennett"}
                          -> student_scales(slug, per, raw, max_score)
      [] slug = "cdi"     -> student_cdi(raw)
      [] OTHER            -> WithBullets(InterpResult("fallback", FALSE, NoCode, NoCode, <<>>),
                                         <<TextBullet("saved")>>)

\* ---- blueprints/psych.py _interpretation ----

\* the languages the tables of _interpretation are keyed by
LANGS == {"ru", "en", "kk"}

psych_pick(per, pair) ==
    LET va == DictGet(per, <<pair[1]>>, 0)
        vb == DictGet(per, <<pair[2]>>, 0)
    IN  IF va >= vb THEN pair[1] ELSE pair[2]

\* bullets.append(f"... {a}:{va} {'≈' if va==vb else '>'} {b}:{vb} -> <b>{pick}</b>")
psych_pair_bullet(per, pair) ==
    LET va == DictGet(per, <<pair[1]>>, 0)
        vb == DictGet(per, <<pair[2]>>, 0)
    IN  PairBullet(pair[1], va, IF va = vb THEN "approx" ELSE "greater", pair[2], vb,
                   psych_pick(per, pair))

psych_mbti(per) ==
    LET code == [n \in DOMAIN MBTI_PAIRS |-> psych_pick(per, MBTI_PAIRS[n])]
    IN  WithBullets(InterpResult("mbti", TRUE, code, NoCode, <<>>),
                    <<TextBullet("your_type"), TextBullet("disclaimer")>>
                    \o [n \in DOMAIN MBTI_PAIRS |-> psych_pair_bullet(per, MBTI_PAIRS[n])])

psych_holland_keep(kv) == InSet(kv.k, RIASEC)

psych_holland(per) ==
    LET order == SortedDesc(Filter(per, psych_holland_keep, 1), 1, <<>>)
        top3  == IF JoinKeys(Take(order, 3)) = <<>> THEN PLACEHOLDER
                 ELSE JoinKeys(Take(order, 3))
    IN  InterpResult("holland", TRUE, top3, NoCode, <<>>)

\* lvl(x) of the kos2 branch: the word of the band in the language lang
psych_lvl(x, lang) ==
    BandWord(IF x >= 8 THEN "high" ELSE IF x >= 4 THEN "medium" ELSE "low", lang)

psych_kos2(per, lang) ==
    LET comm == DictGet(per, COMM, 0)
        org  == DictGet(per, ORG, 0)
    IN  WithBullets(InterpResult("kos2", FALSE, NoCode, NoCode, <<>>),
                    << Bullet("scale", "COMM", comm, psych_lvl(comm, lang)),
                       Bullet("scale", "ORG", org, psych_lvl(org, lang)) >>)

\* the branch of cdi, interests, thinking, child_type and bennett: for bennett
\* with a max_score the percentage, else the "saved" sentence
psych_scales(slug, lang, raw, max_score) ==
    LET pct == PyIntDiv(100 * raw, max_score)
        cat == IF pct >= 75 THEN "high" ELSE IF pct >= 40 THEN "medium" ELSE "low"
    IN  WithBullets(InterpResult("scales", FALSE, NoCode, NoCode, <<>>),
                    IF slug = "bennett" /\ max_score # 0
                    THEN <<Bullet("percent", "", pct, BandWord(cat, lang))>>
                    ELSE <<TextBullet("saved")>>)

\* the table lookup {...}[lang] at the head of the function raises KeyError
\* for a language that is not a key
interpretation_psych(slug, lang, per, raw, max_score) ==
    IF lang \notin LANGS THEN InterpRaised
    ELSE CASE slug = "mbti"    -> psych_mbti(per)
           [] slug = "holland" -> psych_holland(per)
           [] slug = "kos2"    -> psych_kos2(per, lang)
           [] slug \in {"cdi", "interests", "thinking", "child_type", "bennett"}
                               -> psych_scales(slug, lang, raw, max_score)
           [] OTHER            -> WithBullets(InterpResult("fallback", FALSE, NoCode, NoCode, <<>>),
                                              <<TextBullet("saved")>>)

\* score_pct of psych_attempt_view
psych_score_pct(raw, max_score) ==
    IF max_score # 0 THEN [has |-> TRUE, pct |-> PyIntDiv(100 * raw, max_score)] ELSE NoPct

\* ---- blueprints/psych.py _cdi_risk_from_raw ----

\* a slip of the second threshold: 13 falls into the low band
cdi_risk_from_raw_above13(raw, lang) ==
    IF raw.isNone THEN [isNone |-> TRUE, level |-> "", color |-> "", lang |-> ""]
    ELSE LET l == IF lang \notin LANGS THEN "ru" ELSE lang
         IN  IF raw.n >= 19
             THEN [isNone |-> FALSE, level |-> "high", color |-> "danger", lang |-> l]
             ELSE IF raw.n > 13
             THEN [isNone |-> FALSE, level |-> "moderate", color |-> "warning", lang |-> l]
             ELSE [isNone |-> FALSE, level |-> "low", color |-> "secondary", lang |-> l]

\* raw is [isNone, n]: None or the integer n.  The label and the reason of the
\* result are words of the language lang; the result holds that language.
cdi_risk_from_raw(raw, lang) ==
    IF raw.isNone THEN [isNone |-> TRUE, level |-> "", color |-> "", lang |-> ""]
    ELSE LET l == IF lang \notin LANGS THEN "ru" ELSE lang
         IN  IF raw.n >= 19
             THEN [isNone |-> FALSE, level |-> "high", color |-> "danger", lang |-> l]
             ELSE IF raw.n >= 13
             THEN [isNone |-> FALSE, level |-> "moderate", color |-> "warning", lang |-> l]
             ELSE [isNone |-> FALSE, level |-> "low", color |-> "secondary", lang |-> l]

\* ---- services/analysis.py _mbti_code_from_per and _humanize ----

analysis_pick(per, pair) ==
    LET va == DictGet(per, <<pair[1]>>, 0)
        vb == DictGet(per, <<pair[2]>>, 0)
    IN  IF va >= vb THEN pair[1] ELSE pair[2]

mbti_code_from_per(per) == [n \in DOMAIN MBTI_PAIRS |-> analysis_pick(per, MBTI_PAIRS[n])]

\* commentary.append(f"... {a}:{va} {trend} {b}:{vb} -> {pick}"), with
\* trend = "≈" if va == vb else ">"
analysis_commentary(per, pair) ==
    LET va == DictGet(per, <<pair[1]>>, 0)
        vb == DictGet(per, <<pair[2]>>, 0)
    IN  PairBullet(pair[1], va, IF va = vb THEN "approx" ELSE "greater", pair[2], vb,
                   analysis_pick(per, pair))

\* the sentence of _humanize for MBTI: the code and the lines of
\* _mbti_code_from_per
analysis_mbti(per) ==
    WithBullets(InterpResult("mbti", TRUE, mbti_code_from_per(per), NoCode, <<>>),
                [n \in DOMAIN MBTI_PAIRS |-> analysis_commentary(per, MBTI_PAIRS[n])])

analysis_klimov_keep(kv) == kv.k \in KLIMOV_CODES

analysis_klimov(per) ==
    LET ordered == SortedDesc(Filter(per, analysis_klimov_keep, 1), 1, <<>>)
        lead    == IF ordered # <<>> THEN KlimovName(ordered[1].k, "full") ELSE NoCategory
        top     == [n \in DOMAIN ordered |->
                       [k |-> KlimovName(ordered[n].k, "full"), v |-> ordered[n].v]]
    IN  InterpResult("klimov", FALSE, NoCode, lead, top)

analysis_holland_keep(kv) == InStr(kv.k, RIASEC)

analysis_holland(per) ==
    LET ordered == SortedDesc(Filter(per, analysis_holland_keep, 1), 1, <<>>)
        top3    == IF JoinKeys(Take(ordered, 3)) = <<>> THEN PLACEHOLDER
                   ELSE JoinKeys(Take(ordered, 3))
    IN  InterpResult("holland", TRUE, top3, NoCode, ordered)

\* _humanize returns one sentence; the result holds the parts the sentence is
\* made of (for mbti and holland the code it states)
\* lvl(x) of the kos2 branch
analysis_lvl(x) == IF x >= 8 THEN "high" ELSE IF x >= 4 THEN "medium" ELSE "low"

analysis_kos2(per) ==
    LET comm == DictGet(per, COMM, 0)
        org  == DictGet(per, ORG, 0)
    IN  WithBullets(InterpResult("kos2", FALSE, NoCode, NoCode, <<>>),
                    << Bullet("scale", "COMM", comm, BandWord(analysis_lvl(comm), "ru")),
                       Bullet("scale", "ORG", org, BandWord(analysis_lvl(org), "ru")) >>)

\* pct = int(100*raw/max_score) if max_score else 0: the sentence states the
\* percentage and the band whatever max_score is
analysis_bennett(raw, max_score) ==
    LET pct  == IF max_score # 0 THEN PyIntDiv(100 * raw, max_score) ELSE 0
        band == IF pct >= 75 THEN "high" ELSE IF pct >= 40 THEN "medium" ELSE "low"
    IN  WithBullets(InterpResult("bennett", FALSE, NoCode, NoCode, <<>>),
                    <<Bullet("percent", "", pct, BandWord(band, "ru"))>>)

analysis_scales(per) ==
    LET ordered == IF per # <<>> THEN SortedDesc(per, 1, <<>>) ELSE <<>>
    IN  WithBullets(InterpResult("scales", FALSE, NoCode, NoCode, Take(ordered, 3)),
                    <<TextBullet("top")>>)

humanize(slug, per, raw, max_score) ==
    CASE slug = "mbti"    -> analysis_mbti(per)
      [] slug = "klimov"  -> analysis_klimov(per)
      [] slug = "holland" -> analysis_holland(per)
      [] slug = "kos2"    -> analysis_kos2(per)
      [] slug = "bennett" -> analysis_bennett(raw, max_score)
      [] slug \in {"interests", "thinking", "child_type"}
                          -> analysis_scales(per)
      [] slug = "cdi"     -> WithBullets(InterpResult("cdi", FALSE, NoCode, NoCode, <<>>),
                                         <<TextBullet("confidential")>>)
      [] OTHER            -> WithBullets(InterpResult("fallback", FALSE, NoCode, NoCode, <<>>),
                                         <<TextBullet("saved")>>)

-----------------------------------------------------------------------------
(* Inputs of the interpretation flow                                        *)

\* the dict that holds keys[n]: f[n] for every n with f[n] # 0, in the order
\* of keys
RECURSIVE DictFrom(_, _, _)
DictFrom(keys, f, n) ==
    IF n > Len(keys) THEN <<>>
    ELSE IF f[n] = 0 THEN DictFrom(keys, f, n + 1)
    ELSE <<[k |-> keys[n], v |-> f[n]]>> \o DictFrom(keys, f, n + 1)

Reverse(s) == [n \in DOMAIN s |-> s[Len(s) + 1 - n]]

MbtiKeys == << <<"E">>, <<"I">>, <<"S">>, <<"N">>, <<"T">>, <<"F">>, <<"J">>, <<"P">> >>

\* per_scale dicts of an MBTI attempt: every letter missing or 1..MaxVotes,
\* and some with zero and negative counts
MbtiPers ==
    {DictFrom(MbtiKeys, f, 1) : f \in [DOMAIN MbtiKeys -> 0..MaxVotes]}
    \cup { << [k |-> <<"E">>, v |-> 3], [k |-> <<"I">>, v |-> 3], [k |-> <<"S">>, v |-> 5],
              [k |-> <<"N">>, v |-> 1], [k |-> <<"T">>, v |-> 0], [k |-> <<"F">>, v |-> 0],
              [k |-> <<"J">>, v |-> 2], [k |-> <<"P">>, v |-> 2] >>,
           << [k |-> <<"E">>, v |-> -1] >>,
           << [k |-> <<"N">>, v |-> -1], [k |-> <<"T">>, v |-> -2], [k |-> <<"F">>, v |-> -1] >>,
           << [k |-> <<"P">>, v |-> 0], [k |-> TOTAL, v |-> 4] >> }

HollandKeys == << <<"R">>, <<"I">>, <<"A">>, <<"S">>, <<"R","I">>, TOTAL >>

\* per_scale dicts of a Holland attempt, in both insertion orders: four of the
\* six letters, a two-letter code and TOTAL, each missing or 1..MaxPts; and
\* some with the other letters, an empty code and three-letter codes
HollandPers ==
    LET forward == {DictFrom(HollandKeys, f, 1) : f \in [DOMAIN HollandKeys -> 0..MaxPts]}
    IN  forward \cup {Reverse(d) : d \in forward}
        \cup { << [k |-> <<>>, v |-> 3], [k |-> <<"E">>, v |-> 1] >>,
               << [k |-> <<"R","I","A">>, v |-> 2], [k |-> <<"S","E","C">>, v |-> 1] >>,
               << [k |-> <<"C">>, v |-> 1], [k |-> <<"E">>, v |-> 2], [k |-> <<"S">>, v |-> 3],
                  [k |-> <<"A">>, v |-> 4], [k |-> <<"I">>, v |-> 5], [k |-> <<"R">>, v |-> 6] >>,
               << [k |-> <<"R">>, v |-> -1], [k |-> <<"I">>, v |-> 0] >> }

KlimovKeys == << <<"H">>, <<"T">>, <<"N">>, <<"S">>, <<"A">>, TOTAL >>

\* per_scale dicts of a Klimov attempt, in both insertion orders
KlimovPers ==
    LET forward == {DictFrom(KlimovKeys, f, 1) : f \in [DOMAIN KlimovKeys -> 0..MaxPts]}
    IN  forward \cup {Reverse(d) : d \in forward}
        \cup { << [k |-> <<"H">>, v |-> -1], [k |-> <<"A">>, v |-> 0] >> }

\* the input of an attempt of a type instrument: its options hold no TOTAL, so
\* raw and max_score are 0
TypeInput(slug, per) == [slug |-> slug, per |-> per, raw |-> 0, max_score |-> 0]

\* counts of COMM and ORG: missing, negative, and the values on both sides of
\* the thresholds 4 and 8
Kos2Values == (0..MaxPts) \cup {-1, 3, 4, 7, 8}

Kos2Pers ==
    {DictFrom(<<COMM, ORG>>, f, 1) : f \in [1..2 -> Kos2Values]}
    \cup { << [k |-> COMM, v |-> 0], [k |-> TOTAL, v |-> 9] >> }

\* the input of an attempt of a numeric instrument: raw is the sum of the
\* TOTAL of the chosen options, max_score the sum of the best TOTAL of every
\* question, so raw <= max_score
NumericInput(slug, raw, max_score) ==
    [slug |-> slug, per |-> << [k |-> TOTAL, v |-> raw] >>, raw |-> raw, max_score |-> max_score]

BennettRaws == (-MaxPts..MaxPts) \cup {15, 16, 29, 30, 40}

BennettMaxes == {0, 3, 40}

CdiRaws == (-MaxPts..MaxPts) \cup {12, 13, 18, 19, 20}

CdiMaxes == {0, 54}

InterpInputs ==
    {TypeInput("mbti", d) : d \in MbtiPers}
    \cup {TypeInput("holland", d) : d \in HollandPers}
    \cup {TypeInput("klimov", d) : d \in KlimovPers}
    \cup {TypeInput(slug, d) : slug \in {"kos2", "interests", "sociometry"}, d \in Kos2Pers}
    \cup {NumericInput("bennett", t[1], t[2]) :
              t \in {u \in BennettRaws \X BennettMaxes : u[1] <= u[2]}}
    \cup {NumericInput("cdi", t[1], t[2]) :
              t \in {u \in CdiRaws \X CdiMaxes : u[1] <= u[2]}}

\* what _current_lang of psych.py can return: the ?lang= parameter of the
\* request, any string, else the language of the session, else "ru"
LangInputs == LANGS \cup {"de"}

-----------------------------------------------------------------------------
(* Interpretation flow: one slug and per_scale dict, handed to each routine *)

InitInterp ==
    /\ pc = "interpret"
    /\ per_in \in InterpInputs
    /\ interp = NoInterp /\ view = NoView /\ risk = NoRisk
    /\ tests = {} /\ attempts = <<>> /\ risks = NoRisks /\ digest = NoDigest /\ page = NoPage
    /\ answer_rows = <<>> /\ scored = NoScored /\ reqs = NoReqs
    /\ val = NoneVal /\ parsed = [i \in Impls |-> NotCalled]
    /\ test = NoTest /\ answers = NoAnswers /\ agg = NoAgg

\* attempt_result and _student_profile_text: _interpret on the totals
InterpretStudent ==
    /\ pc = "interpret" /\ interp.student.st = "none"
    /\ interp' = [interp EXCEPT
                    !.student = interpret_student(per_in.slug, per_in.per,
                                                  per_in.raw, per_in.max_score)]
    /\ UNCHANGED <<pc, val, parsed, test, answers, agg, per_in, view, risk, tests, attempts, risks, digest, page,
                   answer_rows, scored, reqs>>

\* build_user_results_summary: _humanize on the totals
InterpretAnalysis ==
    /\ pc = "interpret" /\ interp.student.st # "none" /\ interp.analysis.st = "none"
    /\ interp' = [interp EXCEPT
                    !.analysis = humanize(per_in.slug, per_in.per,
                                          per_in.raw, per_in.max_score)]
    /\ UNCHANGED <<pc, val, parsed, test, answers, agg, per_in, view, risk, tests, attempts, risks, digest, page,
                   answer_rows, scored, reqs>>

\* psych_attempt_view: lang comes from _current_lang(); the view ends with the
\* exception of _interpretation, else it goes on to score_pct
InterpretPsych ==
    /\ pc = "interpret" /\ interp.analysis.st # "none" /\ interp.psych.st = "none"
    /\ \E lang \in LangInputs :
          LET summary == interpretation_psych(per_in.slug, lang, per_in.per,
                                              per_in.raw, per_in.max_score)
          IN  /\ interp' = [interp EXCEPT !.psych = summary]
              /\ view' = [st |-> summary.st, lang |-> lang,
                          score_pct |-> IF summary.st = "ok"
                                        THEN psych_score_pct(per_in.raw, per_in.max_score)
                                        ELSE NoPct]
    /\ UNCHANGED <<pc, val, parsed, test, answers, agg, per_in, risk, tests, attempts, risks, digest, page,
                   answer_rows, scored, reqs>>

\* student_view and _cdi_risks: _cdi_risk_from_raw on the raw score of a cdi
\* attempt (or None) with the language of the request
CdiRiskFromRaw ==
    /\ pc = "interpret" /\ per_in.slug = "cdi"
    /\ view.st # "none" /\ risk.st = "none"
    /\ \E raw \in {[isNone |-> FALSE, n |-> per_in.raw], NoneRaw} :
          risk' = [st |-> "ok", raw |-> raw, lang |-> view.lang,
                   out |-> cdi_risk_from_raw(raw, view.lang)]
    /\ UNCHANGED <<pc, val, parsed, test, answers, agg, per_in, interp, view, tests, attempts, risks, digest, page,
                   answer_rows, scored, reqs>>

NextInterp == InterpretStudent \/ InterpretAnalysis \/ InterpretPsych \/ CdiRiskFromRaw

SpecInterp == InitInterp /\ [][NextInterp]_vars

-----------------------------------------------------------------------------
(* Properties of the interpretation flow                                    *)

Interpreted(i) == interp[i].st # "none"

\* the count of a one-letter scale, 0 when per_scale does not hold it
ClaimCount(per, letter) ==
    IF \E n \in DOMAIN per : per[n].k = <<letter>>
    THEN per[CHOOSE n \in DOMAIN per : per[n].k = <<letter>>].v
    ELSE 0

ClaimFirstWins(per, a, b) == ClaimCount(per, a) >= ClaimCount(per, b)

ClaimMbtiCode(per) ==
    << IF ClaimFirstWins(per, "E", "I") THEN "E" ELSE "I",
       IF ClaimFirstWins(per, "S", "N") THEN "S" ELSE "N",
       IF ClaimFirstWins(per, "T", "F") THEN "T" ELSE "F",
       IF ClaimFirstWins(per, "J", "P") THEN "J" ELSE "P" >>

\* C8: MBTI code and tie policy - for every per_scale map (empty, or with
\* missing letters counted 0) the code is four letters, the i-th from the i-th
\* of the pairs (E,I),(S,N),(T,F),(J,P), the first letter of a pair when its
\* count is >= the second's; _interpret, _interpretation and
\* _mbti_code_from_per all give that code.
C8_MbtiCode ==
    per_in.slug = "mbti" =>
        \A i \in Impls :
            Interpreted(i) =>
                /\ interp[i].st = "ok" /\ interp[i].hasCode
                /\ interp[i].code = ClaimMbtiCode(per_in.per)

\* C8 witness: the three routines ran on {E:3,I:3,S:5,N:1,T:0,F:0,J:2,P:2}
\* and each gave ESTJ.
C8_Witness ==
    /\ per_in.slug = "mbti"
    /\ ClaimCount(per_in.per, "E") = 3 /\ ClaimCount(per_in.per, "I") = 3
    /\ ClaimCount(per_in.per, "S") = 5 /\ ClaimCount(per_in.per, "J") = 2
    /\ \A i \in Impls : interp[i].st = "ok" /\ interp[i].code = <<"E","S","T","J">>

\* the keys of per_scale that are exactly one of the six letters
ClaimHollandLetters(per) == {k \in Keys(per) : \E n \in DOMAIN RIASEC : k = <<RIASEC[n]>>}

Descending(ranking) ==
    \A m, n \in DOMAIN ranking : m < n => ranking[m].v >= ranking[n].v

Min2(a, b) == IF a <= b THEN a ELSE b

\* C9: Holland interpretation considers only the scale codes that are exactly
\* one of R, I, A, S, E, C; the ranking is by descending count and the code is
\* the top three ranked letters: at most 3 characters, each from RIASEC, none
\* repeated.
C9_HollandLetters ==
    per_in.slug = "holland" =>
        \A i \in Impls :
            Interpreted(i) =>
                LET letters == ClaimHollandLetters(per_in.per)
                    code    == interp[i].code
                IN  /\ interp[i].st = "ok" /\ interp[i].hasCode
                    /\ \A n \in DOMAIN interp[i].ranking : interp[i].ranking[n].k \in letters
                    /\ Descending(interp[i].ranking)
                    /\ IF letters = {} THEN code = PLACEHOLDER
                       ELSE /\ Len(code) = Min2(3, Cardinality(letters))
                            /\ \A n \in DOMAIN code : <<code[n]>> \in letters
                            /\ \A m, n \in DOMAIN code : m < n =>
                                  /\ code[m] # code[n]
                                  /\ ClaimCount(per_in.per, code[m]) >= ClaimCount(per_in.per, code[n])
                            /\ \A k \in letters :
                                  (\A n \in DOMAIN code : <<code[n]>> # k) =>
                                     \A n \in DOMAIN code :
                                        ClaimCount(per_in.per, code[n]) >= DictGet(per_in.per, k, 0)

ClaimKlimovCodes(per) == Keys(per) \cap KLIMOV_CODES

\* C10: Klimov interpretation - for slug klimov each of _interpret,
\* _interpretation and _humanize ranks the codes among H, T, N, S, A by
\* descending count, surfaces the rank-1 category as the code or leading type
\* and emits the full ranking; with no such code the lead is the placeholder.
C10_Klimov ==
    per_in.slug = "klimov" =>
        \A i \in Impls :
            Interpreted(i) =>
                LET codes == ClaimKlimovCodes(per_in.per)
                IN  /\ interp[i].st = "ok"
                    /\ interp[i].branch = "klimov"
                    /\ {interp[i].ranking[n].k.category : n \in DOMAIN interp[i].ranking} = codes
                    /\ Len(interp[i].ranking) = Cardinality(codes)
                    /\ \A n \in DOMAIN interp[i].ranking :
                          interp[i].ranking[n].v = DictGet(per_in.per, interp[i].ranking[n].k.category, 0)
                    /\ Descending(interp[i].ranking)
                    /\ IF codes = {} THEN interp[i].lead = NoCategory
                       ELSE /\ interp[i].lead.category \in codes
                            /\ \A k \in codes :
                                  DictGet(per_in.per, interp[i].lead.category, 0) >= DictGet(per_in.per, k, 0)

\* the bullets of a result that are of one kind and about one scale
ClaimBullets(res, kind, scale) ==
    {n \in DOMAIN res.bullets : res.bullets[n].kind = kind /\ res.bullets[n].scale = scale}

ClaimKos2Band(x) == IF x >= 8 THEN "high" ELSE IF x >= 4 THEN "medium" ELSE "low"

ClaimScaleKey(scale) == IF scale = "COMM" THEN COMM ELSE ORG

\* C11: KOS-2 banding - for slug kos2 and every per_scale map, COMM and ORG
\* (missing counted 0, negative allowed) are banded each on its own: high when
\* value >= 8, medium when 4 <= value < 8, low when value < 4; the result has
\* one bullet per scale with the value and the band and has no code; the
\* three implementations give the same band for the same value.
C11_Kos2Bands ==
    per_in.slug = "kos2" =>
        \A i \in Impls :
            Interpreted(i) =>
                /\ interp[i].st = "ok" /\ ~interp[i].hasCode
                /\ \A scale \in {"COMM", "ORG"} :
                      LET value == DictGet(per_in.per, ClaimScaleKey(scale), 0)
                          found == ClaimBullets(interp[i], "scale", scale)
                      IN  /\ Cardinality(found) = 1
                          /\ \A n \in found :
                                /\ interp[i].bullets[n].value = value
                                /\ interp[i].bullets[n].band.level = ClaimKos2Band(value)

ClaimPctBand(pct) == IF pct >= 75 THEN "high" ELSE IF pct >= 40 THEN "medium" ELSE "low"

\* C12: Bennett percentage banding - for slug bennett with max_score > 0 and
\* any integer raw, negative included, pct is floor(100 * raw / max_score),
\* the band is high when pct >= 75, medium when 40 <= pct < 75, low when
\* pct < 40, and one bullet carries that percentage and band.
C12_BennettPercent ==
    (per_in.slug = "bennett" /\ per_in.max_score > 0) =>
        \A i \in Impls :
            Interpreted(i) =>
                LET pct   == (100 * per_in.raw) \div per_in.max_score
                    found == ClaimBullets(interp[i], "percent", "")
                IN  /\ interp[i].st = "ok"
                    /\ Cardinality(found) = 1
                    /\ \A n \in found :
                          /\ interp[i].bullets[n].value = pct
                          /\ interp[i].bullets[n].band.level = ClaimPctBand(pct)

\* C13: division guard - where a percentage is computed from raw and
\* max_score (the bennett branch of the three routines, score_pct of the
\* psychologist view), max_score = 0 gives no percentage: no percentage value
\* and no percentage or band statement.
C13_DivisionGuard ==
    per_in.max_score = 0 =>
        /\ \A i \in Impls :
              Interpreted(i) => ClaimBullets(interp[i], "percent", "") = {}
        /\ view.st # "none" => ~view.score_pct.has

ClaimRiskLevel(n) == IF n >= 19 THEN "high" ELSE IF n >= 13 THEN "moderate" ELSE "low"

ClaimRiskColor(level) ==
    CASE level = "high" -> "danger" [] level = "moderate" -> "warning" [] OTHER -> "secondary"

\* C14: CDI risk banding - _cdi_risk_from_raw(None) is None; for an integer
\* raw the level is high with color danger when raw >= 19, moderate with color
\* warning when 13 <= raw <= 18, low with color secondary when raw < 13; one
\* level for every raw, the same in every language.
C14_CdiRiskBands ==
    risk.st # "none" =>
        IF risk.raw.isNone THEN risk.out.isNone
        ELSE /\ ~risk.out.isNone
             /\ risk.out.level = ClaimRiskLevel(risk.raw.n)
             /\ risk.out.color = ClaimRiskColor(risk.out.level)

\* C14 witness: _cdi_risk_from_raw(13, "kk") returned the moderate level.
C14_Witness ==
    /\ risk.st = "ok" /\ ~risk.raw.isNone /\ risk.raw.n = 13 /\ risk.lang = "kk"
    /\ risk.out.level = "moderate" /\ risk.out.color = "warning"

\* C15: for slug cdi the interpretation delegates to the risk banding: the
\* risk level that _interpret and _interpretation report for a raw score is
\* the level _cdi_risk_from_raw returns for that raw, not a generic or absent
\* banding.
C15_CdiDelegates ==
    per_in.slug = "cdi" =>
        \A i \in {"student", "psych"} :
            Interpreted(i) =>
                LET expected == cdi_risk_from_raw([isNone |-> FALSE, n |-> per_in.raw], "ru")
                    found    == ClaimBullets(interp[i], "risk", "")
                IN  /\ interp[i].st = "ok"
                    /\ found # {}
                    /\ \A n \in found : interp[i].bullets[n].band.level = expected.level

\* C16: language fallback - for a language code outside ru, en, kk the
\* interpretation routine of the psychologist and the CDI banding routine do
\* not raise and give exactly what they give for ru.
C16_LanguageFallback ==
    /\ (view.st # "none" /\ view.lang \notin LANGS) =>
          /\ interp.psych.st = "ok"
          /\ interp.psych = interpretation_psych(per_in.slug, "ru", per_in.per,
                                                  per_in.raw, per_in.max_score)
    /\ (risk.st # "none" /\ risk.lang \notin LANGS) =>
          risk.out = cdi_risk_from_raw(risk.raw, "ru")

\* the bullets of the MBTI pairs in a result
ClaimPairBullets(res) ==
    {res.bullets[n] : n \in {m \in DOMAIN res.bullets : res.bullets[m].kind = "pair"}}

\* C30: the MBTI bullet relation is truthful - in every per-pair bullet
\* "a:va SYMBOL b:vb -> pick" of the three routines there is one bullet per
\* pair, the symbol is the sign of approximate equality exactly when
\* va = vb, and when it is ">" the counts shown satisfy va > vb.
C30_MbtiBulletRelation ==
    per_in.slug = "mbti" =>
        \A i \in Impls :
            interp[i].st = "ok" =>
                /\ Cardinality(ClaimPairBullets(interp[i])) = Len(MBTI_PAIRS)
                /\ \A b \in ClaimPairBullets(interp[i]) :
                      /\ b.va = ClaimCount(per_in.per, b.a)
                      /\ b.vb = ClaimCount(per_in.per, b.b)
                      /\ (b.trend = "approx") <=> (b.va = b.vb)
                      /\ (b.trend = "greater") => (b.va > b.vb)

-----------------------------------------------------------------------------
(* Attempt flows: learners start, answer and finish attempts (test_start,   *)
(* attempt_question, attempt_finish of student.py), and then a view reads   *)
(* the rows.  In the attempt flow the view is a dashboard of the            *)
(* psychologist, which asks _cdi_risks of psych.py for the CDI risks.       *)
(*                                                                          *)
(* A TestAttempt row is attempts[id], id its primary key (the keys are      *)
(* given out in order); finished_at is 0 for NULL, else the time of the     *)
(* finish; answers are the TestAnswer rows of the attempt by question.  The *)
(* primary key of a Test row is its slug (slug is unique).                  *)

MaxAttempts == 2

\* the learners (User.id)
Users == {1, 2}

TestRow(slug, confidential_student) ==
    [slug |-> slug, confidential_student |-> confidential_student]

\* the screening instrument: an item scored 0, 13 or 19, so that one answer
\* reaches each of the risk bands
CdiQuestions == << MakeQuestion(1, << Str(<<"0">>), Str(<<"1","3">>), Str(<<"1","9">>) >>) >>

\* a type instrument: an item that votes E or I
MbtiQuestions == << MakeQuestion(1, << Str(<<"E">>), Str(<<"I">>) >>) >>

\* TestQuestion.query.filter_by(test_id=...).order_by(TestQuestion.order)
Questions(slug) == IF slug = "cdi" THEN CdiQuestions ELSE MbtiQuestions

\* Test.query.filter_by(slug=slug).first()
HasTest(test_rows, slug) == \E t \in test_rows : t.slug = slug

TestBySlug(test_rows, slug) == CHOOSE t \in test_rows : t.slug = slug

\* TestAttempt(test_id=test.id, user_id=current_user.id): not finished, no answers
NewAttempt(user_id, slug) ==
    [user_id |-> user_id, test_id |-> slug, finished_at |-> 0,
     answers |-> [qn \in DOMAIN Questions(slug) |-> NoRow]]

\* datetime.utcnow(): later than every time stored so far
utcnow(attempt_rows) ==
    1 + SetMax({0} \cup {attempt_rows[id].finished_at : id \in DOMAIN attempt_rows})

\* a view has read the rows: the behaviour ends there
Reported == risks.st # "none" \/ digest.st # "none" \/ page.st # "none"

AttemptFlows == {"attempts", "digest"}

\* POST /tests/<slug>/start
test_start(user_id, slug) ==
    /\ pc \in AttemptFlows /\ ~Reported
    /\ HasTest(tests, slug)
    /\ Len(attempts) < MaxAttempts
    /\ attempts' = Append(attempts, NewAttempt(user_id, slug))
    /\ UNCHANGED <<pc, val, parsed, test, answers, agg, per_in, interp, view, risk,
                   tests, risks, digest, page,
                   answer_rows, scored, reqs>>

\* POST /attempt/<attempt_id>/q/<order> with option_id in the form: the owner
\* of an attempt that is not finished stores the option for the question
attempt_question(user_id, attempt_id, order, opt_id) ==
    /\ pc \in AttemptFlows /\ ~Reported
    /\ attempt_id \in DOMAIN attempts
    /\ attempts[attempt_id].user_id = user_id
    /\ attempts[attempt_id].finished_at = 0
    /\ order \in DOMAIN Questions(attempts[attempt_id].test_id)
    /\ attempts' = [attempts EXCEPT ![attempt_id].answers[order] =
                                        [row |-> TRUE, option_id |-> opt_id]]
    /\ UNCHANGED <<pc, val, parsed, test, answers, agg, per_in, interp, view, risk,
                   tests, risks, digest, page,
                   answer_rows, scored, reqs>>

\* GET /attempt/<attempt_id>/finish: sets finished_at; TestAttempt has no
\* score, raw_score, max_score or duration_sec attribute, so the hasattr
\* guards keep the totals of _calc_raw_total from being stored
attempt_finish(user_id, attempt_id) ==
    /\ pc \in AttemptFlows /\ ~Reported
    /\ attempt_id \in DOMAIN attempts
    /\ attempts[attempt_id].user_id = user_id
    /\ attempts[attempt_id].finished_at = 0
    /\ attempts' = [attempts EXCEPT ![attempt_id].finished_at = utcnow(attempts)]
    /\ UNCHANGED <<pc, val, parsed, test, answers, agg, per_in, interp, view, risk,
                   tests, risks, digest, page,
                   answer_rows, scored, reqs>>

TestStart == \E user_id \in Users, slug \in {"cdi", "mbti"} : test_start(user_id, slug)

AttemptQuestion ==
    \E attempt_id \in DOMAIN attempts :
        \E order \in DOMAIN Questions(attempts[attempt_id].test_id) :
            \E on \in DOMAIN Questions(attempts[attempt_id].test_id)[order].options :
                attempt_question(attempts[attempt_id].user_id, attempt_id, order,
                                 Questions(attempts[attempt_id].test_id)[order].options[on].id)

AttemptFinish ==
    \E attempt_id \in DOMAIN attempts :
        attempt_finish(attempts[attempt_id].user_id, attempt_id)

\* ---- blueprints/psych.py _cdi_risks ----

\* a slip of the subquery: min(id) in the place of max(id)
cdi_last_attempts_first(student_ids, attempt_rows) ==
    {id \in DOMAIN attempt_rows :
        /\ attempt_rows[id].user_id \in Range(student_ids)
        /\ attempt_rows[id].test_id = "cdi"
        /\ \A other \in DOMAIN attempt_rows :
              (attempt_rows[other].user_id = attempt_rows[id].user_id
               /\ attempt_rows[other].test_id = "cdi") => other >= id}

\* the subquery max(TestAttempt.id) ... group_by(user_id) joined back to
\* TestAttempt: of each requested learner, the cdi attempt of greatest id
cdi_last_attempts(student_ids, attempt_rows) ==
    {id \in DOMAIN attempt_rows :
        /\ attempt_rows[id].user_id \in Range(student_ids)
        /\ attempt_rows[id].test_id = "cdi"
        /\ \A other \in DOMAIN attempt_rows :
              (attempt_rows[other].user_id = attempt_rows[id].user_id
               /\ attempt_rows[other].test_id = "cdi") => other <= id}

\* the entry of one attempt: getattr(a, "raw_score", None) is None, so raw is
\* computed from the answers; dt is finished_at, or started_at when there is
\* no finished_at
cdi_risk_entry(attempt_rows, id, lang) ==
    LET a    == attempt_rows[id]
        raw  == calc_scales_and_totals_psych(Questions(a.test_id), a.answers).raw
        r    == cdi_risk_from_raw([isNone |-> FALSE, n |-> raw], lang)
    IN  [level |-> r.level, color |-> r.color, lang |-> r.lang,
         dt |-> IF a.finished_at # 0 THEN [field |-> "finished_at", at |-> a.finished_at]
                ELSE [field |-> "started_at", at |-> 0],
         attempt_id |-> id, raw |-> raw]

\* the returned dict, user_id -> entry
cdi_risks(student_ids, lang, test_rows, attempt_rows) ==
    IF student_ids = <<>> THEN <<>>
    ELSE IF ~HasTest(test_rows, "cdi") THEN <<>>
    ELSE LET last_attempts == cdi_last_attempts(student_ids, attempt_rows)
         IN  [user_id \in {attempt_rows[id].user_id : id \in last_attempts} |->
                 cdi_risk_entry(attempt_rows,
                                CHOOSE id \in last_attempts : attempt_rows[id].user_id = user_id,
                                lang)]

\* the lists of learners the dashboards ask about
StudentIdLists == {<<>>, <<1>>, <<1, 2>>}

\* dashboard and student_view of psych.py: lang = _current_lang(), then
\* _cdi_risks(student_ids, lang)
CdiRisks ==
    /\ pc = "attempts" /\ ~Reported
    /\ \E student_ids \in StudentIdLists, lang \in {"ru", "de"} :
          risks' = [st |-> "ok", student_ids |-> student_ids, lang |-> lang,
                    out |-> cdi_risks(student_ids, lang, tests, attempts)]
    /\ UNCHANGED <<pc, val, parsed, test, answers, agg, per_in, interp, view, risk,
                   tests, attempts, digest, page,
                   answer_rows, scored, reqs>>

InitAttempts ==
    /\ pc = "attempts"
    /\ tests \in { {TestRow("cdi", TRUE), TestRow("mbti", FALSE)}, {TestRow("mbti", FALSE)} }
    /\ attempts = <<>> /\ risks = NoRisks /\ digest = NoDigest /\ page = NoPage
    /\ answer_rows = <<>> /\ scored = NoScored /\ reqs = NoReqs
    /\ val = NoneVal /\ parsed = [i \in Impls |-> NotCalled]
    /\ test = NoTest /\ answers = NoAnswers /\ agg = NoAgg
    /\ per_in = NoPer /\ interp = NoInterp /\ view = NoView /\ risk = NoRisk

NextAttempts == TestStart \/ AttemptQuestion \/ AttemptFinish \/ CdiRisks

SpecAttempts == InitAttempts /\ [][NextAttempts]_vars

-----------------------------------------------------------------------------
(* Properties of the attempt flow                                           *)

\* the cdi attempts of a learner
ClaimCdiAttempts(user_id) ==
    {id \in DOMAIN attempts : attempts[id].user_id = user_id /\ attempts[id].test_id = "cdi"}

\* the risk level of an attempt: the band of the sum of the points of its
\* selected options
ClaimAttemptLevel(id) ==
    ClaimRiskLevel(ClaimCodeTotal("psych", Questions(attempts[id].test_id),
                                  attempts[id].answers, TOTAL))

ClaimFinishedCdiAttempts(user_id) ==
    {id \in ClaimCdiAttempts(user_id) : attempts[id].finished_at # 0}

\* C18: _cdi_risks takes the last finished cdi attempt of each learner - the
\* entry of a learner comes from that learner's most recent cdi attempt whose
\* finished_at is set; an attempt still in progress never determines or
\* replaces the reported risk.
C18_LastFinishedAttempt ==
    risks.st # "none" =>
        \A user_id \in DOMAIN risks.out :
            LET finished == ClaimFinishedCdiAttempts(user_id)
            IN  /\ finished # {}
                /\ risks.out[user_id].attempt_id = SetMax(finished)
                /\ risks.out[user_id].level = ClaimAttemptLevel(SetMax(finished))

-----------------------------------------------------------------------------
(* Digest flow: after the attempts, the texts about a learner built for the *)
(* AI assistant (_student_profile_text of student.py, which the chat routes *)
(* send, and build_user_results_summary of analysis.py), and the views of   *)
(* the student (attempt_result, my_results of student.py)                   *)

\* .order_by(finished_at.desc()): the ids, latest finish first
RECURSIVE ByFinishedDesc(_, _)
ByFinishedDesc(attempt_rows, ids) ==
    IF ids = {} THEN <<>>
    ELSE LET top == CHOOSE id \in ids :
                       \A other \in ids :
                          \/ attempt_rows[other].finished_at < attempt_rows[id].finished_at
                          \/ (attempt_rows[other].finished_at = attempt_rows[id].finished_at
                              /\ other <= id)
         IN  <<top>> \o ByFinishedDesc(attempt_rows, ids \ {top})

\* TestAttempt.query.filter_by(user_id=...).filter(finished_at.isnot(None))
FinishedOf(attempt_rows, user_id) ==
    {id \in DOMAIN attempt_rows :
        attempt_rows[id].user_id = user_id /\ attempt_rows[id].finished_at # 0}

\* the "title" of the dict that _interpret returns: the words of the branch,
\* and the code for the branches that put the code into the title
TitleOf(summary) == [branch |-> summary.branch, code |-> summary.code]

\* one line of _student_profile_text: "title: code" when the summary has a
\* code (every code the branches return is a non-empty string), else
\* "title: " and the title of the summary
student_profile_line_of(title, s) ==
    IF s.hasCode THEN [title |-> title, kind |-> "code", text |-> s.code]
    ELSE [title |-> title, kind |-> "title", text |-> TitleOf(s)]

\* _interpret(slug, per, raw, max_score) on the triple of _calc_scales_and_totals
student_interpret_totals(slug, totals) ==
    interpret_student(slug, totals.per, totals.raw, totals.max_score)

student_profile_line(attempt_rows, id) ==
    student_profile_line_of(
        attempt_rows[id].test_id,
        student_interpret_totals(
            attempt_rows[id].test_id,
            calc_scales_and_totals_student(Questions(attempt_rows[id].test_id),
                                           attempt_rows[id].answers)))

\* the intro is in kk or en when lang is, else in ru
student_profile_text(user_id, lang, test_rows, attempt_rows) ==
    LET found == Take(ByFinishedDesc(attempt_rows, FinishedOf(attempt_rows, user_id)), 4)
    IN  IF found = <<>> THEN [intro |-> "", lines |-> <<>>]
        ELSE [intro |-> IF lang \in {"kk", "en"} THEN lang ELSE "ru",
              lines |-> [n \in DOMAIN found |-> student_profile_line(attempt_rows, found[n])]]

\* one line of build_user_results_summary: no details for a confidential
\* instrument, else the sentence of _humanize
\* _humanize(slug, per, raw, max_score) on the triple of _calc_scales_and_totals
humanize_totals(slug, totals) ==
    humanize(slug, totals.per, totals.raw, totals.max_score)

results_summary_line(test_rows, attempt_rows, id) ==
    LET a == attempt_rows[id]
    IN  IF TestBySlug(test_rows, a.test_id).confidential_student
        THEN [title |-> a.test_id, kind |-> "confidential", text |-> <<>>]
        ELSE [title |-> a.test_id, kind |-> "sentence",
              text |-> humanize_totals(
                           a.test_id,
                           calc_scales_and_totals_analysis(Questions(a.test_id), a.answers))]

build_user_results_summary(user_id, test_rows, attempt_rows) ==
    LET atts == Take(ByFinishedDesc(attempt_rows, FinishedOf(attempt_rows, user_id)), 6)
    IN  IF atts = <<>> THEN [intro |-> "none", lines |-> <<>>]
        ELSE [intro |-> "ru",
              lines |-> [n \in DOMAIN atts |-> results_summary_line(test_rows, attempt_rows, atts[n])]]

\* _thread_messages_for_llm: the profile text goes into the system prompt
StudentProfileText ==
    /\ pc = "digest" /\ ~Reported
    /\ \E user_id \in Users, lang \in LANGS :
          digest' = [st |-> "ok", user_id |-> user_id, lang |-> lang,
                     profile_text |-> student_profile_text(user_id, lang, tests, attempts),
                     summary |-> <<>>]
    /\ UNCHANGED <<pc, val, parsed, test, answers, agg, per_in, interp, view, risk,
                   tests, attempts, risks, page,
                   answer_rows, scored, reqs>>

BuildUserResultsSummary ==
    /\ pc = "digest" /\ ~Reported
    /\ \E user_id \in Users :
          digest' = [st |-> "ok", user_id |-> user_id, lang |-> "ru",
                     profile_text |-> <<>>,
                     summary |-> build_user_results_summary(user_id, tests, attempts)]
    /\ UNCHANGED <<pc, val, parsed, test, answers, agg, per_in, interp, view, risk,
                   tests, attempts, risks, page,
                   answer_rows, scored, reqs>>

\* ---- blueprints/student.py attempt_result and my_results ----

\* the rows of attempt_result: none when the details are hidden, else of each
\* question the id of the chosen option (0 when there is none)
attempt_result_rows(a, hide_details) ==
    IF hide_details THEN <<>>
    ELSE [qn \in DOMAIN Questions(a.test_id) |->
             LET opts == Questions(a.test_id)[qn].options
                 ans  == a.answers[qn]
                 on   == IF ans.row THEN ChosenIndex(opts, ans.option_id) ELSE 0
             IN  [q |-> qn, chosen |-> IF on = 0 THEN 0 ELSE opts[on].id]]

\* what attempt_result hands to render_template
attempt_result_context(a, attempt_id, hide, totals) ==
    [st |-> "ok", view |-> "attempt_result", user_id |-> a.user_id,
     attempt_id |-> attempt_id, hide_details |-> hide,
     rows |-> attempt_result_rows(a, hide),
     summary |-> student_interpret_totals(a.test_id, totals),
     per_scale |-> totals.per, listed |-> <<>>]

attempt_result(attempt_id, test_rows, attempt_rows) ==
    attempt_result_context(
        attempt_rows[attempt_id], attempt_id,
        TestBySlug(test_rows, attempt_rows[attempt_id].test_id).confidential_student,
        calc_scales_and_totals_student(Questions(attempt_rows[attempt_id].test_id),
                                       attempt_rows[attempt_id].answers))

\* ORDER BY id DESC of a set of ids
RECURSIVE ByIdDesc(_)
ByIdDesc(ids) ==
    IF ids = {} THEN <<>> ELSE <<SetMax(ids)>> \o ByIdDesc(ids \ {SetMax(ids)})

\* the attempts my_results lists: of the user, of an instrument that is not
\* confidential, answered or finished (TestAttempt has no score column);
\* finished ones first, latest finish first, then the others by id
my_results(user_id, test_rows, attempt_rows) ==
    LET mine == {id \in DOMAIN attempt_rows :
                    /\ attempt_rows[id].user_id = user_id
                    /\ ~TestBySlug(test_rows, attempt_rows[id].test_id).confidential_student
                    /\ \/ \E qn \in DOMAIN attempt_rows[id].answers :
                              attempt_rows[id].answers[qn].row
                       \/ attempt_rows[id].finished_at # 0}
        done == {id \in mine : attempt_rows[id].finished_at # 0}
    IN  [st |-> "ok", view |-> "my_results", user_id |-> user_id, attempt_id |-> 0,
         hide_details |-> FALSE, rows |-> <<>>, summary |-> <<>>, per_scale |-> <<>>,
         listed |-> ByFinishedDesc(attempt_rows, done) \o ByIdDesc(mine \ done)]

\* GET /attempt/<attempt_id>/result by the owner of the attempt
AttemptResult ==
    /\ pc = "digest" /\ ~Reported
    /\ \E attempt_id \in DOMAIN attempts :
          page' = attempt_result(attempt_id, tests, attempts)
    /\ UNCHANGED <<pc, val, parsed, test, answers, agg, per_in, interp, view, risk,
                   tests, attempts, risks, digest,
                   answer_rows, scored, reqs>>

\* GET /results
MyResults ==
    /\ pc = "digest" /\ ~Reported
    /\ \E user_id \in Users : page' = my_results(user_id, tests, attempts)
    /\ UNCHANGED <<pc, val, parsed, test, answers, agg, per_in, interp, view, risk,
                   tests, attempts, risks, digest,
                   answer_rows, scored, reqs>>

\* the confidential flag is a column of the Test row: any instrument may
\* carry it
InitDigest ==
    /\ pc = "digest"
    /\ tests \in { {TestRow("cdi", c), TestRow("mbti", m)} : c \in BOOLEAN, m \in BOOLEAN }
    /\ attempts = <<>> /\ risks = NoRisks /\ digest = NoDigest /\ page = NoPage
    /\ answer_rows = <<>> /\ scored = NoScored /\ reqs = NoReqs
    /\ val = NoneVal /\ parsed = [i \in Impls |-> NotCalled]
    /\ test = NoTest /\ answers = NoAnswers /\ agg = NoAgg
    /\ per_in = NoPer /\ interp = NoInterp /\ view = NoView /\ risk = NoRisk

NextDigest ==
    \/ TestStart \/ AttemptQuestion \/ AttemptFinish
    \/ StudentProfileText \/ BuildUserResultsSummary \/ AttemptResult \/ MyResults

SpecDigest == InitDigest /\ [][NextDigest]_vars

-----------------------------------------------------------------------------
(* Properties of the digest flow                                            *)

ClaimConfidential(id) == TestBySlug(tests, attempts[id].test_id).confidential_student

\* the rows as they would be had the learners given no answer to any
\* confidential instrument: two sets of rows that differ only in the answers
\* to confidential instruments have the same image
ClaimWithoutConfidentialAnswers ==
    [id \in DOMAIN attempts |->
        IF ClaimConfidential(id)
        THEN [attempts[id] EXCEPT !.answers = [qn \in DOMAIN @ |-> NoRow]]
        ELSE attempts[id]]

\* C19: AI-digest confidentiality - for every instrument whose confidential
\* flag is set, whatever its slug, the text handed to the AI assistant does
\* not depend on the answers to that instrument, in _student_profile_text and
\* in build_user_results_summary: the text is the one the same routine builds
\* when the answers to the confidential instruments are taken away.
C19_DigestConfidential ==
    digest.st # "none" =>
        /\ digest.profile_text # <<>> =>
              digest.profile_text = student_profile_text(digest.user_id, digest.lang, tests,
                                                         ClaimWithoutConfidentialAnswers)
        /\ digest.summary # <<>> =>
              digest.summary = build_user_results_summary(digest.user_id, tests,
                                                          ClaimWithoutConfidentialAnswers)

\* C20: student-view confidentiality - for an instrument flagged
\* confidential_student, what attempt_result hands to rendering (summary,
\* per_scale, rows) does not depend on the answers, so it holds no risk band,
\* raw score or per-scale total; my_results lists no attempt of a confidential
\* instrument.
C20_StudentViewConfidential ==
    /\ (page.st # "none" /\ page.view = "attempt_result" /\ ClaimConfidential(page.attempt_id)) =>
          LET blank == attempt_result(page.attempt_id, tests, ClaimWithoutConfidentialAnswers)
          IN  /\ page.summary = blank.summary
              /\ page.per_scale = blank.per_scale
              /\ page.rows = blank.rows
    /\ (page.st # "none" /\ page.view = "my_results") =>
          \A n \in DOMAIN page.listed : ~ClaimConfidential(page.listed[n])

-----------------------------------------------------------------------------
(* Score flow: the TestAnswer rows of one attempt, as a list in the order   *)
(* the query returns them (a question may have more than one row: nothing   *)
(* in models.py forbids it), handed to the routines that score an attempt:  *)
(* _calc_raw_total at attempt_finish, _calc_scales_and_totals and           *)
(* _interpret at attempt_result (student.py), _compute_mbti at finish       *)
(* (blueprints/tests/__init__.py)                                           *)

\* most TestAnswer rows of the attempt of the score flow
MaxRows == 2

AnswerRow(attempt_id, question_id, option_id) ==
    [attempt_id |-> attempt_id, question_id |-> question_id, option_id |-> option_id]

\* TestAnswer.query.filter_by(attempt_id=...).all()
AnswersOfAttempt(rows, attempt_id) ==
    LET OfAttempt(r) == r.attempt_id = attempt_id
    IN  SelectSeq(rows, OfAttempt)

\* {a.question_id: a for a in rows}: a later row of a question replaces an
\* earlier one; read by question id as answers_by_qid.get(q.id)
answers_by_question(rows, questions) ==
    [qn \in DOMAIN questions |->
        LET at == {n \in DOMAIN rows : rows[n].question_id = questions[qn].id}
        IN  IF at = {} THEN NoRow
            ELSE [row |-> TRUE, option_id |-> rows[SetMax(at)].option_id]]

\* next((a for a in answers if a.question_id == q.id), None): the first row
first_answer(rows, q) ==
    LET at == {n \in DOMAIN rows : rows[n].question_id = q.id}
    IN  IF at = {} THEN NoRow
        ELSE [row |-> TRUE, option_id |-> rows[CHOOSE n \in at : \A m \in at : n <= m].option_id]

\* the body of the loop of _calc_raw_total over questions
raw_total_question(acc, q, ans) ==
    LET acc1   == [acc EXCEPT !.max_score = @ + student_max_q_total(q.options, 1, 0)]
        chosen == ChosenIndex(q.options, ans.option_id)
    IN  IF ~ans.row \/ chosen = 0 THEN acc1
        ELSE [acc1 EXCEPT !.raw = @ + DictGet(parse_value_to_scales_student(
                                                  q.options[chosen].value).map, TOTAL, 0)]

RECURSIVE raw_total_questions(_, _, _, _)
raw_total_questions(acc, questions, n, rows) ==
    IF n > Len(questions) THEN acc
    ELSE raw_total_questions(
             raw_total_question(acc, questions[n], first_answer(rows, questions[n])),
             questions, n + 1, rows)

calc_raw_total(questions, rows) ==
    raw_total_questions([st |-> "ok", raw |-> 0, max_score |-> 0], questions, 1, rows)

\* ---- blueprints/tests/__init__.py _compute_mbti ----

\* counts = {k: 0 for k in "E I S N T F J P".split()}
MbtiZero == [n \in DOMAIN MbtiKeys |-> [k |-> MbtiKeys[n], v |-> 0]]

\* (value or "").strip().upper()
StripUpper(value) == IF value.isNone THEN <<>> ELSE Upper(Strip(value.s))

\* the TestOption rows of the instrument, question after question
RECURSIVE AllOptions(_, _)
AllOptions(questions, n) ==
    IF n > Len(questions) THEN <<>>
    ELSE questions[n].options \o AllOptions(questions, n + 1)

\* query(TestOption.value).join(TestAnswer, TestAnswer.option_id ==
\* TestOption.id): the value of the option of each row that has one, whatever
\* question the option belongs to; then counts[v] += 1 if v in counts
RECURSIVE mbti_counts(_, _, _, _)
mbti_counts(counts, rows, n, options) ==
    IF n > Len(rows) THEN counts
    ELSE LET on == ChosenIndex(options, rows[n].option_id)
             v  == IF on = 0 THEN <<>> ELSE StripUpper(options[on].value)
         IN  mbti_counts(IF on # 0 /\ HasKey(counts, v) THEN DictAdd(counts, v, 1) ELSE counts,
                         rows, n + 1, options)

\* the first pair one of whose letters is the value of an option of q: 0 when
\* there is none
mbti_pair_of(q) ==
    LET vals == {StripUpper(q.options[on].value) : on \in DOMAIN q.options}
        hit  == {n \in DOMAIN MBTI_PAIRS :
                    <<MBTI_PAIRS[n][1]>> \in vals \/ <<MBTI_PAIRS[n][2]>> \in vals}
    IN  [vals |-> vals, pair |-> IF hit = {} THEN 0 ELSE CHOOSE n \in hit : \A m \in hit : n <= m]

\* totals: how many questions offer each letter of their pair
RECURSIVE mbti_totals(_, _, _)
mbti_totals(totals, questions, n) ==
    IF n > Len(questions) THEN totals
    ELSE LET p  == mbti_pair_of(questions[n])
             a  == <<MBTI_PAIRS[p.pair][1]>>
             b  == <<MBTI_PAIRS[p.pair][2]>>
             t1 == IF a \in p.vals THEN DictAdd(totals, a, 1) ELSE totals
             t2 == IF b \in p.vals THEN DictAdd(t1, b, 1) ELSE t1
         IN  mbti_totals(IF p.pair = 0 THEN totals ELSE t2, questions, n + 1)

\* round(num / den) of Python 3 for num >= 0, den > 0: to the nearest integer,
\* a half to the even one
PyRound(num, den) ==
    LET q == num \div den
        r == num % den
    IN  IF 2 * r < den THEN q
        ELSE IF 2 * r > den THEN q + 1
        ELSE IF q % 2 = 0 THEN q ELSE q + 1

\* pct[a], pct[b] of each pair
mbti_pct(counts) ==
    [n \in DOMAIN MBTI_PAIRS |->
        LET ca == DictGet(counts, <<MBTI_PAIRS[n][1]>>, 0)
            cb == DictGet(counts, <<MBTI_PAIRS[n][2]>>, 0)
        IN  IF ca + cb = 0 THEN [a |-> 0, b |-> 0]
            ELSE [a |-> PyRound(100 * ca, ca + cb), b |-> 100 - PyRound(100 * ca, ca + cb)]]

\* pick = lambda a, b: a if counts.get(a, 0) >= counts.get(b, 0) else b
mbti_pick(counts, pair) ==
    IF DictGet(counts, <<pair[1]>>, 0) >= DictGet(counts, <<pair[2]>>, 0)
    THEN pair[1] ELSE pair[2]

mbti_result(counts, totals) ==
    [st |-> "ok", counts |-> counts, totals |-> totals, pct |-> mbti_pct(counts),
     type_code |-> [n \in DOMAIN MBTI_PAIRS |-> mbti_pick(counts, MBTI_PAIRS[n])]]

compute_mbti(questions, rows, options) ==
    mbti_result(mbti_counts(MbtiZero, rows, 1, options), mbti_totals(MbtiZero, questions, 1))

\* ---- inputs of the score flow ----

\* a Holland item whose options credit two letters in either order, or one
\* letter with two points
HollandOptions ==
    << Str(<<"R","=","1",";","I","=","1">>), Str(<<"I","=","1",";","R","=","1">>),
       Str(<<"A","=","2">>), Str(<<"I","=","2">>) >>

\* an MBTI item of the pair E/I with a weighted option
MbtiOptions == << Str(<<"E">>), Str(<<"I">>), Str(<<"I","=","2">>) >>

\* a scored item
ScoredOptions == << Str(<<"1">>), Str(<<"2">>) >>

ScoreTest(slug, values) ==
    [slug |-> slug, questions |-> << MakeQuestion(1, values), MakeQuestion(2, values) >>]

ScoreTests ==
    {ScoreTest("holland", HollandOptions), ScoreTest("mbti", MbtiOptions),
     ScoreTest("cdi", ScoredOptions)}

\* what a TestAnswer row of the attempt may hold: a question of the
\* instrument and NULL or an option of the instrument (of the question or not)
ScoreRows(t) ==
    {AnswerRow(1, t.questions[qn].id, option_id) :
        qn \in DOMAIN t.questions,
        option_id \in {0} \cup {AllOptions(t.questions, 1)[on].id :
                                  on \in DOMAIN AllOptions(t.questions, 1)}}

RECURSIVE RowLists(_, _)
RowLists(rows, n) ==
    IF n = 0 THEN {<<>>}
    ELSE RowLists(rows, n - 1)
         \cup {Append(l, r) : l \in {x \in RowLists(rows, n - 1) : Len(x) = n - 1}, r \in rows}

InitScore ==
    /\ pc = "score"
    /\ test \in ScoreTests
    /\ answer_rows \in RowLists(ScoreRows(test), MaxRows)
    /\ scored = NoScored /\ agg = NoAgg /\ interp = NoInterp
    /\ val = NoneVal /\ parsed = [i \in Impls |-> NotCalled]
    /\ answers = NoAnswers /\ per_in = NoPer /\ view = NoView /\ risk = NoRisk
    /\ tests = {} /\ attempts = <<>> /\ risks = NoRisks /\ digest = NoDigest /\ page = NoPage
    /\ reqs = NoReqs

\* attempt_finish: answers = TestAnswer.query...all();
\* raw, max_score = _calc_raw_total(questions, answers)
AttemptFinishTotals ==
    /\ pc = "score" /\ scored.raw_total.st = "none"
    /\ scored' = [scored EXCEPT !.raw_total =
                     calc_raw_total(test.questions, AnswersOfAttempt(answer_rows, 1))]
    /\ UNCHANGED <<pc, val, parsed, test, answers, agg, per_in, interp, view, risk,
                   tests, attempts, risks, digest, page, answer_rows, reqs>>

\* attempt_result: answers = {a.question_id: a for a in ...all()};
\* per_scale, raw, max_score = _calc_scales_and_totals(questions, answers);
\* summary = _interpret(test.slug, per_scale, raw, max_score)
AttemptResultTotals ==
    /\ pc = "score" /\ scored.raw_total.st # "none" /\ agg.student.st = "none"
    /\ agg' = [agg EXCEPT !.student =
                  calc_scales_and_totals_student(
                      test.questions,
                      answers_by_question(AnswersOfAttempt(answer_rows, 1), test.questions))]
    /\ interp' = [interp EXCEPT !.student =
                     student_interpret_totals(test.slug, agg'.student)]
    /\ UNCHANGED <<pc, val, parsed, test, answers, per_in, view, risk,
                   tests, attempts, risks, digest, page, answer_rows, scored, reqs>>

\* finish of the tests blueprint, for the MBTI instrument:
\* counts, totals, pct, type_code = _compute_mbti(test, attempt)
FinishMbti ==
    /\ pc = "score" /\ test.slug = "mbti"
    /\ agg.student.st # "none" /\ scored.mbti.st = "none"
    /\ scored' = [scored EXCEPT !.mbti =
                     compute_mbti(test.questions, AnswersOfAttempt(answer_rows, 1),
                                  AllOptions(test.questions, 1))]
    /\ UNCHANGED <<pc, val, parsed, test, answers, agg, per_in, interp, view, risk,
                   tests, attempts, risks, digest, page, answer_rows, reqs>>

NextScore == AttemptFinishTotals \/ AttemptResultTotals \/ FinishMbti

SpecScore == InitScore /\ [][NextScore]_vars

-----------------------------------------------------------------------------
(* Properties of the score flow                                             *)

\* the answer of question qn is the row answers_by_qid holds, and it counts
\* when its option is one of the question's own
ClaimScoreAnswers == answers_by_question(AnswersOfAttempt(answer_rows, 1), test.questions)

\* where in the answer set code k is first credited: question number and, in
\* the value of its selected option, token number; 0 when it never is
ClaimTokenAt(value, k) ==
    LET tokens == Split(Strip(value.s), {";", ","})
        at     == {tn \in DOMAIN tokens :
                      /\ ClaimTokenForm(Strip(tokens[tn]))
                      /\ ClaimTokenCode(Strip(tokens[tn])) = k}
    IN  IF Upper(Strip(value.s)) \in MBTI_LETTERS
        THEN (IF Upper(Strip(value.s)) = k THEN 1 ELSE 0)
        ELSE IF at = {} THEN 0 ELSE CHOOSE tn \in at : \A other \in at : tn <= other

ClaimFirstCredit(k) ==
    LET qs == {qn \in DOMAIN test.questions :
                  /\ ClaimValidAnswer(test.questions[qn], ClaimScoreAnswers)
                  /\ ClaimTokenAt(ClaimSelectedValue(test.questions[qn], ClaimScoreAnswers), k) # 0}
        q1 == CHOOSE qn \in qs : \A other \in qs : qn <= other
    IN  IF qs = {} THEN 0
        ELSE 100 * q1 + ClaimTokenAt(ClaimSelectedValue(test.questions[q1], ClaimScoreAnswers), k)

ClaimTies(ranking) ==
    {p \in (DOMAIN ranking) \X (DOMAIN ranking) :
        /\ p[1] < p[2]
        /\ ranking[p[1]].v = ranking[p[2]].v
        /\ {ranking[p[1]].k, ranking[p[2]].k} \subseteq {<<RIASEC[n]>> : n \in DOMAIN RIASEC}}

\* C21: Holland tie-break - two RIASEC letters with equal counts are ranked
\* in the order in which they were first credited: the letter first credited
\* by the earlier question (or by the earlier token of the same option value)
\* comes first; the code is the first three entries of that ranking.
C21_HollandTieBreak ==
    (pc = "score" /\ test.slug = "holland" /\ interp.student.st # "none") =>
        LET ranking == interp.student.ranking
        IN  /\ interp.student.st = "ok"
            /\ Descending(ranking)
            /\ \A p \in ClaimTies(ranking) :
                  /\ ClaimFirstCredit(ranking[p[1]].k) # 0
                  /\ ClaimFirstCredit(ranking[p[1]].k) < ClaimFirstCredit(ranking[p[2]].k)
            /\ ranking # <<>> => interp.student.code = JoinKeys(Take(ranking, 3))

\* C21 witness: a tie of two letters first credited by different questions,
\* and a tie of two letters credited by one option value with I before R.
C21_Witness ==
    /\ pc = "score" /\ test.slug = "holland" /\ interp.student.st = "ok"
    /\ \E p \in ClaimTies(interp.student.ranking) :
          /\ interp.student.ranking[p[1]].k = <<"I">>
          /\ interp.student.ranking[p[2]].k = <<"A">>
          /\ ClaimFirstCredit(<<"I">>) = 101 /\ ClaimFirstCredit(<<"A">>) = 201

\* C28: MBTI flows agree - for every MBTI attempt (composite option values,
\* answers whose option is not the question's own) the type code of
\* _compute_mbti equals the code of _calc_scales_and_totals followed by
\* _interpret.
C28_MbtiFlowsAgree ==
    (pc = "score" /\ test.slug = "mbti" /\ scored.mbti.st # "none") =>
        /\ scored.mbti.st = "ok" /\ interp.student.st = "ok"
        /\ scored.mbti.type_code = interp.student.code

\* C29: stored score equals displayed score - for every instrument and every
\* list of answer rows (more than one row of a question included) raw and
\* max_score of _calc_raw_total at finish equal raw and max_score of
\* _calc_scales_and_totals at the result page.
C29_StoredEqualsDisplayed ==
    (pc = "score" /\ agg.student.st # "none") =>
        /\ scored.raw_total.st = "ok" /\ agg.student.st = "ok"
        /\ scored.raw_total.raw = agg.student.raw
        /\ scored.raw_total.max_score = agg.student.max_score

-----------------------------------------------------------------------------
(* Request flow: the handlers that create attempts, store answers and       *)
(* finish attempts (run, start, take, answer, finish of the tests blueprint *)
(* and attempt_question, attempt_finish of student.py), served by workers   *)
(* that run at the same time.  No handler takes a lock and models.py puts   *)
(* no unique constraint on the rows, so a handler is two steps: it loads    *)
(* the rows it decides on, and later it writes and commits; steps of other  *)
(* requests may come in between.  A request in flight is reqs[w]: what the  *)
(* worker loaded.  The response of a finish request stays in reqs[w] until  *)
(* the worker takes its next request.                                       *)
(*                                                                          *)
(* The learner works on the screening instrument; the type instrument is in *)
(* the catalogue, so its question, its options and its finish URL can be    *)
(* submitted.  Primary keys are unique over the whole table: question 1     *)
(* with options 11..13 (cdi), question 2 with options 21, 22 (mbti).        *)

RequestQuestions(slug) ==
    IF slug = "cdi" THEN CdiQuestions
    ELSE << MakeQuestion(2, << Str(<<"E">>), Str(<<"I">>) >>) >>

\* the TestOption table
RequestOptions == AllOptions(RequestQuestions("cdi") \o RequestQuestions("mbti"), 1)

\* the learner who sends the requests
RequestUsers == {1}

\* what the forms and URLs of the requests hold: a slug, a question id and an
\* option id of the catalogue; 0 is an empty field
RequestSlugs == {"cdi", "mbti"}

RequestQuestionIds == {1, 2}

RequestOptionIds == {0, 11, 21}

NewReq(op, route, user_id) ==
    [op |-> op, route |-> route, user_id |-> user_id, slug |-> "", attempt_id |-> 0,
     question_id |-> 0, option_id |-> 0, row |-> 0, finished |-> FALSE]

\* a worker that can take a request
Free(w) == reqs[w].op \in {"idle", "response"}

\* TestAttempt(user_id=current_user.id, test_id=test.id); its TestAnswer rows
\* are rows of answer_rows
NewAttemptRow(user_id, slug) == [NewAttempt(user_id, slug) EXCEPT !.answers = <<>>]

\* _get_or_create_attempt, the query: the unfinished attempts of the user for
\* the test
unfinished_attempts(attempt_rows, user_id, slug) ==
    {id \in DOMAIN attempt_rows :
        /\ attempt_rows[id].user_id = user_id
        /\ attempt_rows[id].test_id = slug
        /\ attempt_rows[id].finished_at = 0}

\* run, start and take without attempt_id call _get_or_create_attempt: when
\* q.first() finds an unfinished attempt it is returned and nothing is
\* written; when it finds none the handler goes on to create one
get_or_create_attempt_query(w, route, user_id, slug) ==
    /\ pc = "requests" /\ Free(w)
    /\ HasTest(tests, slug)
    /\ unfinished_attempts(attempts, user_id, slug) = {}
    /\ reqs' = [reqs EXCEPT ![w] = [NewReq("create", route, user_id) EXCEPT !.slug = slug]]
    /\ UNCHANGED <<pc, val, parsed, test, answers, agg, per_in, interp, view, risk,
                   tests, attempts, risks, digest, page, answer_rows, scored>>

\* db.session.add(attempt); flush; commit
get_or_create_attempt_insert(w) ==
    /\ pc = "requests" /\ reqs[w].op = "create"
    /\ Len(attempts) < MaxAttempts
    /\ attempts' = Append(attempts, NewAttemptRow(reqs[w].user_id, reqs[w].slug))
    /\ reqs' = [reqs EXCEPT ![w] = Idle]
    /\ UNCHANGED <<pc, val, parsed, test, answers, agg, per_in, interp, view, risk,
                   tests, risks, digest, page, answer_rows, scored>>

\* TestAnswer.query.filter_by(attempt_id=..., question_id=...).first(): the
\* place of the row in answer_rows, 0 when there is none
first_row(rows, attempt_id, question_id) ==
    LET at == {n \in DOMAIN rows :
                  rows[n].attempt_id = attempt_id /\ rows[n].question_id = question_id}
    IN  IF at = {} THEN 0 ELSE CHOOSE n \in at : \A m \in at : n <= m

\* TestOption.query.get(option_id) if option_id else None, then
\* option.id if option else None
option_or_none(option_id) ==
    IF \E n \in DOMAIN RequestOptions : RequestOptions[n].id = option_id
    THEN option_id ELSE 0

\* answer of the tests blueprint, up to the query of _save_answer: the
\* attempt must be the user's and not finished; question_id and option_id
\* are taken from the form as they are
answer_load(w, user_id, slug, attempt_id, question_id, option_id) ==
    /\ pc = "requests" /\ Free(w)
    /\ HasTest(tests, slug)
    /\ attempt_id \in DOMAIN attempts
    /\ attempts[attempt_id].user_id = user_id
    /\ attempts[attempt_id].finished_at = 0
    /\ reqs' = [reqs EXCEPT ![w] =
                   [NewReq("save", "answer", user_id) EXCEPT
                       !.attempt_id = attempt_id,
                       !.question_id = question_id,
                       !.option_id = option_or_none(option_id),
                       !.row = first_row(answer_rows, attempt_id, question_id)]]
    /\ UNCHANGED <<pc, val, parsed, test, answers, agg, per_in, interp, view, risk,
                   tests, attempts, risks, digest, page, answer_rows, scored>>

\* attempt_question of student.py (POST), up to the query of the answer: the
\* attempt must be the user's and not finished, the question is the one at
\* order in the attempt's test; int(opt_id) is stored as it is
attempt_question_load(w, user_id, attempt_id, order, opt_id) ==
    /\ pc = "requests" /\ Free(w)
    /\ attempt_id \in DOMAIN attempts
    /\ attempts[attempt_id].user_id = user_id
    /\ attempts[attempt_id].finished_at = 0
    /\ order \in DOMAIN RequestQuestions(attempts[attempt_id].test_id)
    /\ opt_id # 0
    /\ LET q == RequestQuestions(attempts[attempt_id].test_id)[order]
       IN  reqs' = [reqs EXCEPT ![w] =
                       [NewReq("save", "attempt_question", user_id) EXCEPT
                           !.attempt_id = attempt_id, !.question_id = q.id,
                           !.option_id = opt_id,
                           !.row = first_row(answer_rows, attempt_id, q.id)]]
    /\ UNCHANGED <<pc, val, parsed, test, answers, agg, per_in, interp, view, risk,
                   tests, attempts, risks, digest, page, answer_rows, scored>>

\* if not ans: ans = TestAnswer(...); db.session.add(ans)
\* ans.option_id = ...; db.session.commit()
stored_rows(rows, req) ==
    IF req.row = 0
    THEN Append(rows, AnswerRow(req.attempt_id, req.question_id, req.option_id))
    ELSE [rows EXCEPT ![req.row].option_id = req.option_id]

save_answer_commit(w, route) ==
    /\ pc = "requests" /\ reqs[w].op = "save" /\ reqs[w].route = route
    /\ reqs[w].row = 0 => Len(answer_rows) < MaxRows
    /\ answer_rows' = stored_rows(answer_rows, reqs[w])
    /\ reqs' = [reqs EXCEPT ![w] = Idle]
    /\ UNCHANGED <<pc, val, parsed, test, answers, agg, per_in, interp, view, risk,
                   tests, attempts, risks, digest, page, scored>>

\* a slip of finish: the guard "if not finished_at" is left out
finish_sets_always(finished) == TRUE

\* finish of the tests blueprint, in the MBTI branch and in the other one:
\* if not getattr(attempt, "finished_at", None): setattr(..., utcnow())
finish_sets(finished) == ~finished

\* attempt_finish of student.py: if getattr(attempt, "finished_at", None):
\* return redirect(...); otherwise attempt.finished_at = datetime.utcnow()
attempt_finish_sets(finished) == IF finished THEN FALSE ELSE TRUE

\* finish and attempt_finish up to the test of finished_at: the attempt is
\* loaded (finish takes the test from the slug of the URL, attempt_finish from
\* the attempt) and must be the user's; the handler goes on with what the
\* test of finished_at gave
finish_load(w, route, user_id, slug, attempt_id) ==
    /\ pc = "requests" /\ Free(w)
    /\ HasTest(tests, slug)
    /\ attempt_id \in DOMAIN attempts
    /\ attempts[attempt_id].user_id = user_id
    /\ reqs' = [reqs EXCEPT ![w] =
                   [NewReq("finish", route, user_id) EXCEPT
                       !.slug = slug, !.attempt_id = attempt_id,
                       !.finished = attempts[attempt_id].finished_at # 0]]
    /\ UNCHANGED <<pc, val, parsed, test, answers, agg, per_in, interp, view, risk,
                   tests, attempts, risks, digest, page, answer_rows, scored>>

\* the write of finished_at (none when the loaded attempt was finished) and
\* the commit; the response names the attempt
finish_commit(w, route, sets) ==
    /\ pc = "requests" /\ reqs[w].op = "finish" /\ reqs[w].route = route
    /\ attempts' = IF sets
                   THEN [attempts EXCEPT ![reqs[w].attempt_id].finished_at = utcnow(attempts)]
                   ELSE attempts
    /\ reqs' = [reqs EXCEPT ![w].op = "response"]
    /\ UNCHANGED <<pc, val, parsed, test, answers, agg, per_in, interp, view, risk,
                   tests, risks, digest, page, answer_rows, scored>>

GetOrCreateQuery ==
    \E w \in Workers, route \in {"run", "start", "take"}, user_id \in RequestUsers :
        get_or_create_attempt_query(w, route, user_id, "cdi")

GetOrCreateInsert == \E w \in Workers : get_or_create_attempt_insert(w)

AnswerLoad ==
    \E w \in Workers, user_id \in RequestUsers, attempt_id \in DOMAIN attempts,
       question_id \in RequestQuestionIds, option_id \in RequestOptionIds :
        answer_load(w, user_id, attempts[attempt_id].test_id, attempt_id, question_id, option_id)

AnswerCommit == \E w \in Workers : save_answer_commit(w, "answer")

AttemptQuestionLoad ==
    \E w \in Workers, user_id \in RequestUsers, attempt_id \in DOMAIN attempts,
       opt_id \in RequestOptionIds :
        attempt_question_load(w, user_id, attempt_id, 1, opt_id)

AttemptQuestionCommit == \E w \in Workers : save_answer_commit(w, "attempt_question")

FinishLoad ==
    \E w \in Workers, user_id \in RequestUsers, slug \in RequestSlugs,
       attempt_id \in DOMAIN attempts :
        finish_load(w, "finish", user_id, slug, attempt_id)

FinishCommit ==
    \E w \in Workers :
        finish_commit(w, "finish", finish_sets(reqs[w].finished))

AttemptFinishLoad ==
    \E w \in Workers, user_id \in RequestUsers, attempt_id \in DOMAIN attempts :
        finish_load(w, "attempt_finish", user_id, attempts[attempt_id].test_id, attempt_id)

AttemptFinishCommit ==
    \E w \in Workers :
        finish_commit(w, "attempt_finish", attempt_finish_sets(reqs[w].finished))

InitRequests ==
    /\ pc = "requests"
    /\ tests = {TestRow("cdi", TRUE), TestRow("mbti", FALSE)}
    /\ attempts = <<>> /\ answer_rows = <<>> /\ reqs = NoReqs
    /\ risks = NoRisks /\ digest = NoDigest /\ page = NoPage /\ scored = NoScored
    /\ val = NoneVal /\ parsed = [i \in Impls |-> NotCalled]
    /\ test = NoTest /\ answers = NoAnswers /\ agg = NoAgg
    /\ per_in = NoPer /\ interp = NoInterp /\ view = NoView /\ risk = NoRisk

\* creating and finishing attempts
NextFinish ==
    \/ GetOrCreateQuery \/ GetOrCreateInsert
    \/ FinishLoad \/ FinishCommit \/ AttemptFinishLoad \/ AttemptFinishCommit

SpecFinish == InitRequests /\ [][NextFinish]_vars

\* the learner has opened the instrument: run has created the attempt
InitAnswers ==
    /\ pc = "requests"
    /\ tests = {TestRow("cdi", TRUE), TestRow("mbti", FALSE)}
    /\ attempts = << NewAttemptRow(1, "cdi") >>
    /\ answer_rows = <<>> /\ reqs = NoReqs
    /\ risks = NoRisks /\ digest = NoDigest /\ page = NoPage /\ scored = NoScored
    /\ val = NoneVal /\ parsed = [i \in Impls |-> NotCalled]
    /\ test = NoTest /\ answers = NoAnswers /\ agg = NoAgg
    /\ per_in = NoPer /\ interp = NoInterp /\ view = NoView /\ risk = NoRisk

\* answering and finishing an attempt
NextAnswers ==
    \/ AnswerLoad \/ AnswerCommit \/ AttemptQuestionLoad \/ AttemptQuestionCommit
    \/ FinishLoad \/ FinishCommit \/ AttemptFinishLoad \/ AttemptFinishCommit

SpecAnswers == InitAnswers /\ [][NextAnswers]_vars

-----------------------------------------------------------------------------
(* Properties of the request flow                                           *)

\* C22: attempt reuse - under any sequence and interleaving of run, start and
\* take-without-attempt_id requests of one user for one test, with no finish
\* in between, at most one unfinished attempt of that user for that test
\* exists.
C22_AttemptReuse ==
    pc = "requests" =>
        \A user_id \in RequestUsers, slug \in RequestSlugs :
            (\A id \in DOMAIN attempts :
                (attempts[id].user_id = user_id /\ attempts[id].test_id = slug)
                    => attempts[id].finished_at = 0)
            => Cardinality(unfinished_attempts(attempts, user_id, slug)) <= 1

\* C24: finished attempts are frozen - once finished_at of an attempt is set,
\* no step of an answer request (answer, attempt_question POST) creates,
\* changes or clears an answer row of that attempt, under any interleaving of
\* answer and finish requests.
C24_FinishedFrozen ==
    [][\A id \in DOMAIN attempts :
          attempts[id].finished_at # 0 =>
              AnswersOfAttempt(answer_rows', id) = AnswersOfAttempt(answer_rows, id)]_vars

\* C25: finish is idempotent on the completion time - a call of finish (MBTI
\* slug or not) or attempt_finish made once finished_at of the attempt is set
\* leaves finished_at unchanged, and a finished_at that is set is never unset.
C25_FinishIdempotent ==
    [][\A id \in DOMAIN attempts :
          /\ attempts[id].finished_at # 0 => attempts'[id].finished_at # 0
          /\ \A w \in Workers :
                (/\ reqs[w].op = "finish" /\ reqs[w].attempt_id = id
                 /\ reqs[w].finished
                 /\ reqs'[w].op = "response")
                => attempts'[id].finished_at = attempts[id].finished_at]_vars

\* C25 witness: a finish of the tests blueprint under the MBTI slug and an
\* attempt_finish have both completed on an attempt that was finished when
\* they loaded it, and the attempt is still finished.
C25_Witness ==
    /\ pc = "requests"
    /\ \E w1, w2 \in Workers :
          /\ reqs[w1].op = "response" /\ reqs[w1].route = "finish"
          /\ reqs[w1].slug = "mbti"
          /\ reqs[w2].op = "response" /\ reqs[w2].route = "attempt_finish"
          /\ reqs[w1].attempt_id = reqs[w2].attempt_id
          /\ reqs[w1].finished /\ reqs[w2].finished
          /\ attempts[reqs[w1].attempt_id].finished_at # 0

\* C26: single answer per question - after any sequence and interleaving of
\* answer submissions there is at most one TestAnswer row for each pair of
\* attempt and question (the row that holds the last submitted option).
C26_SingleAnswer ==
    pc = "requests" =>
        \A m, n \in DOMAIN answer_rows :
            (/\ answer_rows[m].attempt_id = answer_rows[n].attempt_id
             /\ answer_rows[m].question_id = answer_rows[n].question_id) => m = n

\* C27: answer referential integrity - every stored TestAnswer with an option
\* refers to an option of the answer's question, and the question belongs to
\* the instrument of the answer's attempt.
C27_AnswerIntegrity ==
    pc = "requests" =>
        \A n \in DOMAIN answer_rows :
            LET row       == answer_rows[n]
                questions == RequestQuestions(attempts[row.attempt_id].test_id)
            IN  /\ \E qn \in DOMAIN questions : questions[qn].id = row.question_id
                /\ row.option_id # 0 =>
                      \E qn \in DOMAIN questions :
                          /\ questions[qn].id = row.question_id
                          /\ ChosenIndex(questions[qn].options, row.option_id) # 0

-----------------------------------------------------------------------------
(* The flows together                                                       *)

Init == InitParse \/ InitAgg \/ InitInterp \/ InitAttempts \/ InitDigest \/ InitScore
          \/ InitRequests \/ InitAnswers

Next == NextParse \/ NextAgg \/ NextInterp \/ NextAttempts \/ NextDigest \/ NextScore
          \/ NextFinish \/ NextAnswers

Spec == Init /\ [][Next]_vars

====
